---- MODULE Spec2Model ----
(***************************************************************************)
(* riven-tui: the manual-acquisition controller (RivenTUI._run_manual_     *)
(* scrape with its three modal screens), the watchlist scan and the bulk   *)
(* jobs of the advanced view (AdvancedView.on_scan, run_action,            *)
(* perform_mass_add, on_export, perform_import) and the identity           *)
(* resolution (RivenAPI.resolve_tmdb_id), as state machines.               *)
(*                                                                         *)
(* Every await on a network call or on a modal screen is a suspension      *)
(* point and so a state of the model; the code between two suspension      *)
(* points runs without interleaving (single-threaded asyncio) and is one   *)
(* action.  Handlers of one screen/widget are run one at a time by its     *)
(* message pump, and a dismissed screen handles no further event.          *)
(***************************************************************************)
EXTENDS Integers, Sequences, FiniteSets, TLC

(***************************************************************************)
(* Bounds of the model (not program constants).                            *)
(***************************************************************************)
MaxStreamKeys == 1
MaxLines == 2
MaxStarts == 2
MaxAborts == 1
MaxFiles == 2
MaxMovies == 2
MaxShows == 2
CapMovies == 11
CapShows == 1
MaxIds == 120
MaxUnsupported == 1
MaxMissingMovies == 6
MaxMissingShows == 1
MaxPages == 3
MaxPageItems == 2
MaxRecords == 2
MaxSyncPages == 1

VARIABLES
    pc,               \* position of _run_manual_scrape (which await it is suspended at)
    media_type,       \* main_content.item_data["media_type"]
    all_streams,      \* ScrapeLogScreen.all_streams: stream key -> stream
    lines_read,       \* number of event-stream lines consumed by run_discovery
    session_data,     \* local session_data of _run_manual_scrape
    file_mapping,     \* result of FileMappingScreen (season/episode -> file)
    payload_for_select, \* file ids sent to select_files
    trace,            \* history: remote calls issued/returned and user inputs
    notified,         \* self.notify(...) messages emitted so far
    refreshed,        \* _refresh_current_item_data_and_ui was awaited
    scan_pc,          \* position of AdvancedView.on_scan
    all_mdb_movies,   \* watchlist movies of the running scan
    all_mdb_shows,    \* watchlist shows of the running scan
    movie_probe,      \* per movie task: state and result
    show_probe,       \* per show task: state and result
    sem_value,        \* asyncio.Semaphore._value
    sem_waiters,      \* asyncio.Semaphore._waiters (FIFO)
    matched_items,    \* self.matched_items: internal id -> item
    counts,           \* counts dict of on_scan
    list_root,        \* entries appended to #adv-list-root
    missing_movies,   \* self.missing_movies
    missing_shows,    \* self.missing_shows
    status,           \* #adv-status-line
    btn_disabled,     \* .disabled of the Delete / Reset / Retry buttons
    bulk_pc,          \* position of AdvancedView.run_action
    actionable_ids,   \* local actionable_ids of run_action
    unsupported_items, \* len(unsupported_items) of run_action
    batch_i,          \* loop variable i of the batched execution
    success_count,    \* local success_count of run_action
    fail_count,       \* local fail_count of run_action
    bulk_log,         \* history: bulk requests issued and answered
    bulk_report,      \* the numbers shown by the final status of run_action
    resolve_pc,       \* position of RivenAPI.resolve_tmdb_id
    resolve_item,     \* argument item of resolve_tmdb_id
    resolve_token,    \* argument token of resolve_tmdb_id (configured or not)
    find_resp,        \* what the catalog answers to a lookup, per source
    resolve_lookups,  \* history: find_tmdb_id calls made
    resolve_result,   \* what resolve_tmdb_id returned
    row_inputs,       \* FileMappingScreen: the season / episode Input values, per row
    add_pc,           \* position of AdvancedView.perform_mass_add
    add_m_type,       \* argument m_type of the running process_batch
    add_items,        \* argument items of the running process_batch
    add_i,            \* loop variable i of process_batch
    add_log,          \* history: chunks, add requests and pauses of the job
    error_logged,     \* ScrapeLogScreen: an "ERROR: ..." line was written to the log widget
    dialog_log,       \* history: the answers of the ConfirmationScreens of the jobs
    export_pc,        \* position of AdvancedView.on_export
    export_total_pages, \* local total_pages of on_export
    export_page,      \* loop variable page of on_export
    export_count,     \* local count of on_export
    export_file,      \* the file riven_export.json
    import_pc,        \* position of AdvancedView.perform_import
    import_total_pages, \* local total_pages of the library sync of perform_import
    import_page,      \* loop variable page of the library sync
    existing_ids,     \* local existing_ids of perform_import
    synced,           \* history: the library items the sync pages returned
    new_movies,       \* local new_movies of perform_import
    new_shows,        \* local new_shows of perform_import
    skipped_count,    \* local skipped_count of perform_import
    imported_count,   \* local imported_count of perform_import
    error_count,      \* local error_count of perform_import
    import_log        \* history: chunks and add requests of perform_import

session_vars == <<pc, media_type, all_streams, lines_read, session_data, file_mapping, payload_for_select, trace, notified, refreshed>>

scan_vars == <<scan_pc, all_mdb_movies, all_mdb_shows, movie_probe, show_probe, sem_value, sem_waiters, matched_items, counts, list_root, missing_movies, missing_shows, status>>

bulk_vars == <<btn_disabled, bulk_pc, actionable_ids, unsupported_items, batch_i, success_count, fail_count, bulk_log, bulk_report>>

resolve_vars == <<resolve_pc, resolve_item, resolve_token, find_resp, resolve_lookups, resolve_result>>

input_vars == <<row_inputs>>

add_vars == <<add_pc, add_m_type, add_items, add_i, add_log>>

log_vars == <<error_logged>>

dialog_vars == <<dialog_log>>

export_vars == <<export_pc, export_total_pages, export_page, export_count, export_file>>

import_vars == <<import_pc, import_total_pages, import_page, existing_ids, synced, new_movies, new_shows, skipped_count, imported_count, error_count, import_log>>

more_vars == <<log_vars, dialog_vars, export_vars, import_vars>>

vars == <<pc, media_type, all_streams, lines_read, session_data, file_mapping, payload_for_select, trace, notified, refreshed, scan_pc, all_mdb_movies, all_mdb_shows, movie_probe, show_probe, sem_value, sem_waiters, matched_items, counts, list_root, missing_movies, missing_shows, status, btn_disabled, bulk_pc, actionable_ids, unsupported_items, batch_i, success_count, fail_count, bulk_log, bulk_report, resolve_pc, resolve_item, resolve_token, find_resp, resolve_lookups, resolve_result, row_inputs, add_pc, add_m_type, add_items, add_i, add_log, error_logged, dialog_log, export_pc, export_total_pages, export_page, export_count, export_file, import_pc, import_total_pages, import_page, existing_ids, synced, new_movies, new_shows, skipped_count, imported_count, error_count, import_log>>

(***************************************************************************)
(* Values exchanged with the remote services.                              *)
(***************************************************************************)
\* Outcomes of one HTTP request of a session-lifecycle wrapper in api.py.
HttpOutcomes == {"200", "200_badjson", "non200", "timeout", "connect_error"}

\* select_scrape_file / update_scrape_attributes / complete_scrape_session /
\* abort_scrape_session: (True, json) on status 200, (False, text) otherwise;
\* any exception (also of resp.json()) gives (False, str(e)).
SessionCallOk(r) ==
    r = "200"

\* Streams as delivered by the discovery channel.
StreamKeys == 1..MaxStreamKeys

StreamVals == {[infohash |-> "h1", failed |-> FALSE], [infohash |-> "none", failed |-> FALSE], [infohash |-> "h2", failed |-> TRUE]}

\* A "streams" payload of one data: line: a non-empty dict key -> stream.
StreamPayloads == UNION {[D -> StreamVals] : D \in (SUBSET StreamKeys) \ {{}}}

EmptyDict == [k \in {} |-> 0]

\* dict.update
DictUpdate(d, p) ==
    [k \in (DOMAIN d) \cup (DOMAIN p) |-> IF k \in DOMAIN p THEN p[k] ELSE d[k]]

\* Candidate files of a session.
FilePool == {[file_id |-> 1, filesize |-> 5], [file_id |-> 2, filesize |-> 9], [file_id |-> 3, filesize |-> 9]}

FileLists == UNION {{f \in [1..n -> FilePool] : \A i, j \in 1..n : i # j => f[i] # f[j]} : n \in 0..MaxFiles}

SessionIds == {"s1", "s2"}

NoSession == [set |-> FALSE, session_id |-> "none", files |-> <<>>]

\* JSON dicts that start_session may answer with (session_id may be missing).
SessionDicts == {[set |-> TRUE, session_id |-> s, files |-> fl] : s \in SessionIds \cup {"none"}, fl \in FileLists}

\* Raw outcomes of the POST of start_scrape_session.
StartRaw == {[kind |-> "200_dict", body |-> d] : d \in SessionDicts} \cup {[kind |-> k, body |-> NoSession] : k \in {"200_nondict", "200_badjson", "detail_not_cached", "detail_other", "detail_empty", "timeout", "connect_error"}}

\* RivenAPI.start_scrape_session: the pair (data, error) it returns.
\* data: "dict" / "nondict" / "none"; error: "none" (None or an empty
\* string, both falsy), "not_cached" (a text containing "Torrent is not
\* cached") or "other" (any other non-empty text).
start_scrape_session(r) ==
    CASE r.kind = "200_dict" -> [data |-> "dict", body |-> r.body, error |-> "none"]
      [] r.kind = "200_nondict" -> [data |-> "nondict", body |-> NoSession, error |-> "none"]
      [] r.kind = "200_badjson" -> [data |-> "none", body |-> NoSession, error |-> "other"]
      [] r.kind = "detail_not_cached" -> [data |-> "none", body |-> NoSession, error |-> "not_cached"]
      [] r.kind = "detail_other" -> [data |-> "none", body |-> NoSession, error |-> "other"]
      [] r.kind = "detail_empty" -> [data |-> "none", body |-> NoSession, error |-> "none"]
      [] r.kind = "timeout" -> [data |-> "none", body |-> NoSession, error |-> "none"]
      [] r.kind = "connect_error" -> [data |-> "none", body |-> NoSession, error |-> "other"]

\* What the history records of an answer of start_session: "ok" (a dict
\* and no error), "not_cached" or "fail".
StartAnswer(resp) ==
    IF resp.error = "not_cached" THEN "not_cached"
    ELSE IF resp.error = "none" /\ resp.data = "dict" THEN "ok"
    ELSE "fail"

\* The branching without the "Torrent is not cached" case.
StartClassNoRetry(resp) ==
    IF resp.error # "none" \/ resp.data # "dict" THEN "fail"
    ELSE "ok"

\* How _run_manual_scrape branches on (data, error) after start_session:
\* "retry" (continue the selection loop), "fail" (notify and return) or
\* "ok" (session_data = current_session_data; break).
StartClass(resp) ==
    IF resp.error = "not_cached" THEN "retry"
    ELSE IF resp.error # "none" \/ resp.data # "dict" THEN "fail"
    ELSE "ok"

\* The guard without its session_id test.
SessionUsableFilesOnly(sd) ==
    Len(sd.files) # 0

\* The guard "if not session_id or not containers_files" is false.
SessionUsable(sd) ==
    ~(sd.session_id = "none" \/ Len(sd.files) = 0)

\* containers_files[0] instead of the maximum
FirstFileIndex(files) ==
    1

\* max(containers_files, key=filesize): the first file of maximal size.
MaxFileIndex(files) ==
    CHOOSE i \in 1..Len(files) : /\ \A j \in 1..Len(files) : files[j].filesize <= files[i].filesize
                                 /\ \A j \in 1..(i - 1) : files[j].filesize < files[i].filesize

(***************************************************************************)
(* The history of remote calls and user inputs.                            *)
(***************************************************************************)
Ev(ev, op, sid, res) ==
    [ev |-> ev, op |-> op, sid |-> sid, res |-> res]

CallsOf(op) ==
    {i \in DOMAIN trace : trace[i].ev = "call" /\ trace[i].op = op}

RetsOf(op) ==
    {i \in DOMAIN trace : trace[i].ev = "ret" /\ trace[i].op = op}

FinalizeOps == {"select_files", "update_attributes", "complete_session"}

SessionOps == FinalizeOps \cup {"abort_session"}

(***************************************************************************)
(* FileMappingScreen.on_confirm_mapping                                    *)
(***************************************************************************)
\* What the user may have typed into a season and into an episode input
\* (after strip()): nothing, a numeral, or a text that int() rejects.
SeasonStrs == {"", "1", "x"}

EpisodeStrs == {"", "1", "2", "x"}

RowInputs == [season : SeasonStrs, episode : EpisodeStrs]

\* int(s) succeeds
IsInt(s) ==
    s \in {"1", "2"}

\* int(s)
ParseInt(s) ==
    IF s = "1" THEN 1 ELSE 2

RowBlank(r) ==
    r.season = "" /\ r.episode = ""

RowValid(r) ==
    IsInt(r.season) /\ IsInt(r.episode)

\* has_error reset by a later row that parses
HasErrorLastRow(inputs) ==
    \E i \in DOMAIN inputs : ~RowBlank(inputs[i]) /\ ~RowValid(inputs[i]) /\ \A j \in DOMAIN inputs : j > i => ~RowValid(inputs[j])

\* has_error after the loop over the rows
HasError(inputs) ==
    \E i \in DOMAIN inputs : ~RowBlank(inputs[i]) /\ ~RowValid(inputs[i])

\* mapping after the first n rows: <<season, episode>> -> file, a later row
\* with the same season and episode replacing the earlier one.
RECURSIVE BuildMapping(_, _, _)
BuildMapping(files, inputs, n) ==
    IF n = 0 THEN EmptyDict
    ELSE LET m == BuildMapping(files, inputs, n - 1)
             r == inputs[n]
         IN IF RowBlank(r) \/ ~RowValid(r) THEN m
            ELSE DictUpdate(m, [k \in {<<ParseInt(r.season), ParseInt(r.episode)>>} |-> files[n]])

\* the payload keyed by the episode number instead of the file id
PayloadOfEpisodes(mapping) ==
    {k[2] : k \in DOMAIN mapping}

\* payload_for_select of the tv branch: keyed by str(file_id)
PayloadOf(mapping) ==
    {mapping[k].file_id : k \in DOMAIN mapping}

(***************************************************************************)
(* AdvancedView.run_action: values.                                        *)
(***************************************************************************)
\* batch_size = 50
batch_size == 50

\* The numbers interpolated into "Complete: {success_count} Roots
\* processed. {len(unsupported_items)} Unsupported skipped."
CompleteReport(processed, skipped) ==
    [processed |-> processed, skipped |-> skipped]

NoReport == CompleteReport(0, 0)

\* Raw outcomes of the request of bulk_action; "non200_names_id" is an
\* error status whose body text contains the first id of the batch.
BulkRaw == {"200", "200_badjson", "non200", "non200_names_id", "timeout", "connect_error"}

\* RivenAPI.bulk_action: (True, json) on status 200, (False, text) on any
\* other status and on any exception (resp.json() included).
bulk_action(r) ==
    [success |-> r = "200", names_id |-> r = "non200_names_id"]

\* Ascending sequence of a finite set of numbers.
SortedSeq(S) ==
    IF S = {} THEN <<>>
    ELSE LET lo == CHOOSE x \in S : \A y \in S : x <= y
             hi == CHOOSE x \in S : \A y \in S : y <= x
             InS(x) == x \in S
         IN SelectSeq([k \in 1..(hi - lo + 1) |-> lo + k - 1], InS)

\* The keys of self.matched_items in iteration order.  The states the model
\* starts a job from are scans that matched item k as their k-th match, so
\* the insertion order is the order of the ids.
DictKeys(d) ==
    SortedSeq(DOMAIN d)

\* The slice with an end index one too small.
BatchShort(ids, i) ==
    SubSeq(ids, i + 1, IF i + batch_size - 1 < Len(ids) THEN i + batch_size - 1 ELSE Len(ids))

\* batch = actionable_ids[i:i + batch_size]
Batch(ids, i) ==
    SubSeq(ids, i + 1, IF i + batch_size < Len(ids) THEN i + batch_size ELSE Len(ids))

BulkEv(ev, batch, ok) ==
    [ev |-> ev, batch |-> batch, ok |-> ok]

\* The first two chunks requested together.
FirstRequestsTogether(ids) ==
    IF Len(ids) > batch_size
    THEN <<BulkEv("call", Batch(ids, 0), TRUE), BulkEv("call", Batch(ids, batch_size), TRUE)>>
    ELSE <<BulkEv("call", Batch(ids, 0), TRUE)>>

\* The requests issued when the loop is entered: "await bulk_action(...)"
\* of the first iteration.
FirstRequests(ids) ==
    <<BulkEv("call", Batch(ids, 0), TRUE)>>

(***************************************************************************)
(* RivenAPI.resolve_tmdb_id and find_tmdb_id: values.                      *)
(***************************************************************************)
\* An item record.  An identifier field holds a number, or 0 when the key
\* is missing or its value is None or empty (the falsy values; the number
\* 0 itself is not used as an identifier).  parent: "absent" (no
\* "parent_ids" key), "null" (the key with None) or "dict"; type: "absent"
\* when the key is missing.
Record(tmdb, parent, p_tmdb, p_tvdb, p_imdb, tvdb, imdb, type, id) ==
    [tmdb_id |-> tmdb, parent |-> parent, p_tmdb_id |-> p_tmdb, p_tvdb_id |-> p_tvdb, p_imdb_id |-> p_imdb, tvdb_id |-> tvdb, imdb_id |-> imdb, type |-> type, id |-> id]

NoRecord == Record(0, "absent", 0, 0, 0, 0, 0, "absent", 0)

ItemTypes == {"absent", "movie", "show", "season"}

Records == {Record(tmdb, "dict", p_tmdb, p_tvdb, p_imdb, tvdb, imdb, type, id) : tmdb \in {0, 11}, p_tmdb \in {0, 12}, p_tvdb \in {0, 22}, p_imdb \in {0, 32}, tvdb \in {0, 21}, imdb \in {0, 31}, type \in ItemTypes, id \in {0, 7}} \cup {Record(tmdb, parent, 0, 0, 0, tvdb, imdb, type, id) : tmdb \in {0, 11}, parent \in {"absent", "null"}, tvdb \in {0, 21}, imdb \in {0, 31}, type \in ItemTypes, id \in {0, 7}}

Sources == {"tvdb_id", "imdb_id"}

\* What the catalog's /find answers for an external source: a result with
\* an id, no result, or a failure (error status, timeout, unreadable body).
FindOutcomes == {"found", "no_mapping", "error"}

FindResps == [Sources -> FindOutcomes]

NoFindResp == [src \in Sources |-> "error"]

\* The catalog id that /find maps an external id to.
FoundId(external_id) ==
    external_id + 100

\* What resolve_tmdb_id returns: a catalog id, None, or an exception.
Resolved(kind, id) ==
    [kind |-> kind, id |-> id]

\* RivenAPI.find_tmdb_id: the resolved id (first element of its pair), None
\* without a configured token, without a result and on any failure.
find_tmdb_id(external_id, source, token, resp) ==
    IF ~token THEN Resolved("none", 0)
    ELSE IF resp[source] = "found" THEN Resolved("id", FoundId(external_id))
    ELSE Resolved("none", 0)

\* (item.get("parent_ids") or {}).get(key)
ParentGet(item, key) ==
    IF item.parent # "dict" THEN 0
    ELSE IF key = "tvdb_id" THEN item.p_tvdb_id
    ELSE item.p_imdb_id

\* external_id and source_type as chosen before the last-resort block:
\* tvdb (own, else parent) before imdb (own, else parent).
ExternalChoice(item) ==
    LET tv == IF item.tvdb_id # 0 THEN item.tvdb_id ELSE ParentGet(item, "tvdb_id")
        im == IF item.imdb_id # 0 THEN item.imdb_id ELSE ParentGet(item, "imdb_id")
    IN IF tv # 0 THEN [external_id |-> tv, source_type |-> "tvdb_id"]
       ELSE [external_id |-> im, source_type |-> "imdb_id"]

\* The last resort with the show's id looked up as an imdb id.
LastResortImdb(item) ==
    IF item.type = "show" THEN [do |-> "lookup", external_id |-> item.id, source_type |-> "imdb_id"]
    ELSE IF item.type \in {"movie", "absent"} THEN [do |-> "return_id", external_id |-> item.id, source_type |-> "none"]
    ELSE [do |-> "lookup", external_id |-> 0, source_type |-> "imdb_id"]

\* "if not external_id:" block: a show's id is looked up as a tvdb id, a
\* movie's id (the default type) is returned as it is, any other type is
\* left without an id.
LastResort(item) ==
    IF item.type = "show" THEN [do |-> "lookup", external_id |-> item.id, source_type |-> "tvdb_id"]
    ELSE IF item.type \in {"movie", "absent"} THEN [do |-> "return_id", external_id |-> item.id, source_type |-> "none"]
    ELSE [do |-> "lookup", external_id |-> 0, source_type |-> "imdb_id"]

(***************************************************************************)
(* Initial states.                                                         *)
(***************************************************************************)
SessionInit ==
    /\ pc = "idle"
    /\ media_type = "none"
    /\ all_streams = EmptyDict
    /\ lines_read = 0
    /\ session_data = NoSession
    /\ file_mapping = EmptyDict
    /\ payload_for_select = {}
    /\ trace = <<>>
    /\ notified = {}
    /\ refreshed = FALSE

NoCounts == [root |-> 0, season |-> 0, episode |-> 0, missing |-> 0]

ScanIdle ==
    /\ scan_pc = "idle"
    /\ all_mdb_movies = <<>>
    /\ all_mdb_shows = <<>>
    /\ movie_probe = <<>>
    /\ show_probe = <<>>
    /\ sem_value = 0
    /\ sem_waiters = <<>>
    /\ matched_items = EmptyDict
    /\ counts = NoCounts
    /\ list_root = <<>>
    /\ missing_movies = <<>>
    /\ missing_shows = <<>>
    /\ status = "none"

\* AdvancedView as composed: the bulk buttons are disabled, no job runs.
BulkIdle ==
    /\ btn_disabled = TRUE
    /\ bulk_pc = "idle"
    /\ actionable_ids = <<>>
    /\ unsupported_items = 0
    /\ batch_i = 0
    /\ success_count = 0
    /\ fail_count = 0
    /\ bulk_log = <<>>
    /\ bulk_report = NoReport

\* No resolve_tmdb_id call is running.
ResolveIdle ==
    /\ resolve_pc = "idle"
    /\ resolve_item = NoRecord
    /\ resolve_token = FALSE
    /\ find_resp = NoFindResp
    /\ resolve_lookups = <<>>
    /\ resolve_result = Resolved("pending", 0)

\* No FileMappingScreen is mounted.
InputIdle ==
    row_inputs = <<>>

\* No perform_mass_add worker is running.
AddIdle ==
    /\ add_pc = "idle"
    /\ add_m_type = "none"
    /\ add_items = <<>>
    /\ add_i = 0
    /\ add_log = <<>>

\* riven_export.json: absent, or the lines written between "[" and "]"
\* (each an entry and whether a comma follows it) and whether "]" was written.
NoFile == [exists |-> FALSE, lines |-> <<>>, closed |-> FALSE]

\* No ScrapeLogScreen has logged an error line.
LogIdle ==
    error_logged = FALSE

\* No ConfirmationScreen of a job has been answered.
DialogIdle ==
    dialog_log = <<>>

\* No on_export handler is running.
ExportIdle ==
    /\ export_pc = "idle"
    /\ export_total_pages = 0
    /\ export_page = 0
    /\ export_count = 0

\* No perform_import worker is running.
ImportIdle ==
    /\ import_pc = "idle"
    /\ import_total_pages = 0
    /\ import_page = 0
    /\ existing_ids = {}
    /\ synced = {}
    /\ new_movies = <<>>
    /\ new_shows = <<>>
    /\ skipped_count = 0
    /\ imported_count = 0
    /\ error_count = 0
    /\ import_log = <<>>

\* No log line, no dialog, no backup, no restore, and no backup file.
MoreIdle ==
    LogIdle /\ DialogIdle /\ ExportIdle /\ ImportIdle /\ export_file = NoFile

\* No modal ConfirmationScreen covers the advanced view.
NoDialogOpen ==
    bulk_pc # "confirm" /\ add_pc # "confirm" /\ import_pc # "confirm"

\* Nothing is running: no acquisition run, no scan, no bulk job, no
\* resolution, no mass add, no backup, no restore.
Init ==
    SessionInit /\ ScanIdle /\ BulkIdle /\ ResolveIdle /\ InputIdle /\ AddIdle /\ MoreIdle

(***************************************************************************)
(* RivenTUI._run_manual_scrape and its modal screens.                      *)
(***************************************************************************)
\* Entry checks of _run_manual_scrape, up to pushing ScrapeLogScreen.
StartRun(details, mt, item_id, tvdb) ==
    /\ pc = "idle"
    /\ IF ~details \/ mt = "none"
       THEN /\ pc' = "done"
            /\ UNCHANGED <<media_type, notified>>
       ELSE IF mt = "tv" /\ ~item_id /\ ~tvdb
       THEN /\ pc' = "done"
            /\ notified' = notified \cup {"error:no_tvdb_id"}
            /\ UNCHANGED media_type
       ELSE /\ pc' = "discovering"
            /\ media_type' = mt
            /\ UNCHANGED notified
    /\ UNCHANGED <<all_streams, lines_read, session_data, file_mapping, payload_for_select, trace, refreshed>>
    /\ UNCHANGED scan_vars
    /\ UNCHANGED <<bulk_vars, resolve_vars, input_vars, add_vars, more_vars>>

\* ScrapeLogScreen.run_discovery: a data: line whose JSON carries streams.
DiscoveryData(p) ==
    /\ pc = "discovering"
    /\ lines_read < MaxLines
    /\ all_streams' = DictUpdate(all_streams, p)
    /\ lines_read' = lines_read + 1
    /\ UNCHANGED <<pc, media_type, session_data, file_mapping, payload_for_select, trace, notified, refreshed>>
    /\ UNCHANGED scan_vars
    /\ UNCHANGED <<bulk_vars, resolve_vars, input_vars, add_vars, more_vars>>

\* A line that adds nothing and logs no error: invalid JSON, a message-only
\* payload, or a line that is neither data: nor error:.
DiscoverySkip ==
    /\ pc = "discovering"
    /\ lines_read < MaxLines
    /\ lines_read' = lines_read + 1
    /\ UNCHANGED <<pc, media_type, all_streams, session_data, file_mapping, payload_for_select, trace, notified, refreshed>>
    /\ UNCHANGED scan_vars
    /\ UNCHANGED <<bulk_vars, resolve_vars, input_vars, add_vars, more_vars>>

\* An error: line: "ERROR: ..." is written to the log widget and the loop
\* goes on to the next line (no break).
DiscoveryError ==
    /\ pc = "discovering"
    /\ lines_read < MaxLines
    /\ lines_read' = lines_read + 1
    /\ error_logged' = TRUE
    /\ UNCHANGED <<pc, media_type, all_streams, session_data, file_mapping, payload_for_select, trace, notified, refreshed>>
    /\ UNCHANGED scan_vars
    /\ UNCHANGED <<bulk_vars, resolve_vars, input_vars, add_vars, dialog_vars, export_vars, import_vars>>

\* The log screen is dismissed (its read loop is disposed of) and
\* push_screen_wait returns all_streams: "No streams found." or the first
\* StreamSelectionScreen.
AfterDiscovery ==
    /\ lines_read' = 0
    /\ IF DOMAIN all_streams = {}
       THEN /\ pc' = "done"
            /\ notified' = notified \cup {"warning:no_streams"}
       ELSE /\ pc' = "select_stream"
            /\ UNCHANGED notified

\* [DONE] or the end of the event stream: dismiss(self.all_streams).
DiscoveryDone ==
    /\ pc = "discovering"
    /\ AfterDiscovery
    /\ UNCHANGED <<media_type, all_streams, session_data, file_mapping, payload_for_select, trace, refreshed>>
    /\ UNCHANGED scan_vars
    /\ UNCHANGED <<bulk_vars, resolve_vars, input_vars, add_vars, more_vars>>

\* The Close button of the log screen: dismiss(self.all_streams).
DiscoveryClose ==
    /\ pc = "discovering"
    /\ AfterDiscovery
    /\ trace' = Append(trace, Ev("user", "close_log", "none", "none"))
    /\ UNCHANGED <<media_type, all_streams, session_data, file_mapping, payload_for_select, refreshed>>
    /\ UNCHANGED scan_vars
    /\ UNCHANGED <<bulk_vars, resolve_vars, input_vars, add_vars, more_vars>>

\* StreamSelectionScreen.on_stream_selected without the infohash test.
SelectStreamNoCheck(k) ==
    /\ pc = "select_stream"
    /\ k \in DOMAIN all_streams
    /\ ~all_streams[k].failed
    /\ Cardinality(CallsOf("start_session")) < MaxStarts
    /\ pc' = "starting"
    /\ trace' = trace \o <<Ev("user", "select_stream", "none", all_streams[k].infohash), Ev("call", "start_session", "none", all_streams[k].infohash)>>
    /\ UNCHANGED notified
    /\ UNCHANGED <<media_type, all_streams, lines_read, session_data, file_mapping, payload_for_select, refreshed>>
    /\ UNCHANGED scan_vars
    /\ UNCHANGED <<bulk_vars, resolve_vars, input_vars, add_vars, more_vars>>

\* StreamSelectionScreen.on_stream_selected (a failed stream is disabled),
\* then the start_session call of the loop in _run_manual_scrape.
SelectStream(k) ==
    /\ pc = "select_stream"
    /\ k \in DOMAIN all_streams
    /\ ~all_streams[k].failed
    /\ Cardinality(CallsOf("start_session")) < MaxStarts
    /\ IF all_streams[k].infohash # "none"
       THEN /\ pc' = "starting"
            /\ trace' = trace \o <<Ev("user", "select_stream", "none", all_streams[k].infohash), Ev("call", "start_session", "none", all_streams[k].infohash)>>
            /\ UNCHANGED notified
       ELSE /\ pc' = "done"
            /\ trace' = Append(trace, Ev("user", "select_stream", "none", "none"))
            /\ notified' = notified \cup {"error:no_infohash"}
    /\ UNCHANGED <<media_type, all_streams, lines_read, session_data, file_mapping, payload_for_select, refreshed>>
    /\ UNCHANGED scan_vars
    /\ UNCHANGED <<bulk_vars, resolve_vars, input_vars, add_vars, more_vars>>

\* StreamSelectionScreen.on_cancel_button: dismiss(None), the run returns.
CancelStreamSelection ==
    /\ pc = "select_stream"
    /\ pc' = "done"
    /\ trace' = Append(trace, Ev("user", "cancel_selection", "none", "none"))
    /\ UNCHANGED <<media_type, all_streams, lines_read, session_data, file_mapping, payload_for_select, notified, refreshed>>
    /\ UNCHANGED scan_vars
    /\ UNCHANGED <<bulk_vars, resolve_vars, input_vars, add_vars, more_vars>>

\* start_session has returned: the classification of (data, error), and on
\* success the code up to the next await (the title-parsing call).  The
\* stream list is not read again once the selection loop is left, and the
\* model drops it there.
StartReturn(r) ==
    /\ pc = "starting"
    /\ LET resp == start_scrape_session(r)
           cls == StartClass(resp)
       IN CASE cls = "retry" ->
                 /\ pc' = "select_stream"
                 /\ notified' = notified \cup {"warning:not_cached"}
                 /\ trace' = Append(trace, Ev("ret", "start_session", "none", StartAnswer(resp)))
                 /\ UNCHANGED <<session_data, all_streams>>
            [] cls = "fail" ->
                 /\ pc' = "done"
                 /\ notified' = notified \cup {"error:start_session"}
                 /\ trace' = Append(trace, Ev("ret", "start_session", "none", StartAnswer(resp)))
                 /\ UNCHANGED <<session_data, all_streams>>
            [] cls = "ok" ->
                 /\ session_data' = resp.body
                 /\ all_streams' = EmptyDict
                 /\ IF ~SessionUsable(resp.body)
                    THEN /\ pc' = "done"
                         /\ notified' = notified \cup {"error:no_cached_files"}
                         /\ trace' = Append(trace, Ev("ret", "start_session", resp.body.session_id, StartAnswer(resp)))
                    ELSE /\ pc' = IF media_type = "movie" THEN "movie_parse" ELSE "tv_parse"
                         /\ UNCHANGED notified
                         /\ trace' = trace \o <<Ev("ret", "start_session", resp.body.session_id, StartAnswer(resp)), Ev("call", "parse", "none", "none")>>
    /\ UNCHANGED <<media_type, lines_read, file_mapping, payload_for_select, refreshed>>
    /\ UNCHANGED scan_vars
    /\ UNCHANGED <<bulk_vars, resolve_vars, input_vars, add_vars, more_vars>>

\* Movie branch: parse_torrent_titles has returned (its result is not
\* used); the largest file is sent to select_files.
MovieParseReturn(r) ==
    /\ pc = "movie_parse"
    /\ pc' = "select"
    /\ payload_for_select' = {session_data.files[MaxFileIndex(session_data.files)].file_id}
    /\ trace' = trace \o <<Ev("ret", "parse", "none", IF r = "200" THEN "ok" ELSE "fail"), Ev("call", "select_files", session_data.session_id, "none")>>
    /\ UNCHANGED <<media_type, all_streams, lines_read, session_data, file_mapping, notified, refreshed>>
    /\ UNCHANGED scan_vars
    /\ UNCHANGED <<bulk_vars, resolve_vars, input_vars, add_vars, more_vars>>

\* Show branch: parse_torrent_titles has returned (response, error); on a
\* truthy error the run returns, otherwise FileMappingScreen is pushed.  An
\* exception whose text is empty (a timeout) gives (None, ""): "if error"
\* is false and response.get raises, which ends the worker.
TvParseReturn(r) ==
    /\ pc = "tv_parse"
    /\ IF r = "200"
       THEN /\ pc' = "mapping"
            /\ trace' = Append(trace, Ev("ret", "parse", "none", "ok"))
            /\ UNCHANGED notified
       ELSE IF r = "timeout"
       THEN /\ pc' = "crashed"
            /\ trace' = Append(trace, Ev("ret", "parse", "none", "fail"))
            /\ UNCHANGED notified
       ELSE /\ pc' = "done"
            /\ trace' = Append(trace, Ev("ret", "parse", "none", "fail"))
            /\ notified' = notified \cup {"error:parse_titles"}
    /\ UNCHANGED <<media_type, all_streams, lines_read, session_data, file_mapping, payload_for_select, refreshed>>
    /\ UNCHANGED scan_vars
    /\ UNCHANGED <<bulk_vars, resolve_vars, input_vars, add_vars, more_vars>>

\* on_confirm_mapping dismissing with whatever mapping was built, the empty
\* one included ("if not file_mapping: return" then ends the run).
ConfirmMappingAllowEmpty(inputs) ==
    /\ pc = "mapping"
    /\ LET mapping == BuildMapping(session_data.files, inputs, Len(session_data.files))
       IN IF HasError(inputs)
          THEN /\ notified' = notified \cup {"error:invalid_season_episode"}
               /\ UNCHANGED <<pc, file_mapping, payload_for_select, trace>>
          ELSE IF DOMAIN mapping = {}
          THEN /\ pc' = "done"
               /\ trace' = Append(trace, Ev("user", "confirm_mapping", "none", "none"))
               /\ UNCHANGED <<file_mapping, payload_for_select, notified>>
          ELSE /\ pc' = "select"
               /\ file_mapping' = mapping
               /\ payload_for_select' = PayloadOf(mapping)
               /\ trace' = trace \o <<Ev("user", "confirm_mapping", "none", "none"), Ev("call", "select_files", session_data.session_id, "none")>>
               /\ UNCHANGED notified
    /\ UNCHANGED <<media_type, all_streams, lines_read, session_data, refreshed>>
    /\ UNCHANGED scan_vars
    /\ UNCHANGED <<bulk_vars, resolve_vars, input_vars, add_vars, more_vars>>

\* FileMappingScreen.on_confirm_mapping with the inputs as typed; when the
\* screen is dismissed with a mapping, _run_manual_scrape builds the payload
\* and calls select_files.
ConfirmMapping(inputs) ==
    /\ pc = "mapping"
    /\ LET mapping == BuildMapping(session_data.files, inputs, Len(session_data.files))
       IN IF HasError(inputs)
          THEN /\ notified' = notified \cup {"error:invalid_season_episode"}
               /\ UNCHANGED <<pc, file_mapping, payload_for_select, trace>>
          ELSE IF DOMAIN mapping = {}
          THEN /\ notified' = notified \cup {"warning:no_files_mapped"}
               /\ UNCHANGED <<pc, file_mapping, payload_for_select, trace>>
          ELSE /\ pc' = "select"
               /\ file_mapping' = mapping
               /\ payload_for_select' = PayloadOf(mapping)
               /\ trace' = trace \o <<Ev("user", "confirm_mapping", "none", "none"), Ev("call", "select_files", session_data.session_id, "none")>>
               /\ UNCHANGED notified
    /\ UNCHANGED <<media_type, all_streams, lines_read, session_data, refreshed>>
    /\ UNCHANGED scan_vars
    /\ UNCHANGED <<bulk_vars, resolve_vars, input_vars, add_vars, more_vars>>

\* FileMappingScreen.on_cancel_mapping: dismiss(None); "if not
\* file_mapping: return".
CancelMapping ==
    /\ pc = "mapping"
    /\ pc' = "done"
    /\ trace' = Append(trace, Ev("user", "cancel_mapping", "none", "none"))
    /\ UNCHANGED <<media_type, all_streams, lines_read, session_data, file_mapping, payload_for_select, notified, refreshed>>
    /\ UNCHANGED scan_vars
    /\ UNCHANGED <<bulk_vars, resolve_vars, input_vars, add_vars, more_vars>>

\* FileMappingScreen.on_abort_session up to its await (self.session_id is
\* set whenever the screen was pushed).
AbortSession ==
    /\ pc = "mapping"
    /\ Cardinality(CallsOf("abort_session")) < MaxAborts
    /\ pc' = "aborting"
    /\ trace' = trace \o <<Ev("user", "abort_session", "none", "none"), Ev("call", "abort_session", session_data.session_id, "none")>>
    /\ UNCHANGED <<media_type, all_streams, lines_read, session_data, file_mapping, payload_for_select, notified, refreshed>>
    /\ UNCHANGED scan_vars
    /\ UNCHANGED <<bulk_vars, resolve_vars, input_vars, add_vars, more_vars>>

\* on_abort_session dismissing whatever abort_session returned.
AbortReturnAlwaysDismiss(r) ==
    /\ pc = "aborting"
    /\ pc' = "done"
    /\ notified' = notified \cup {IF SessionCallOk(r) THEN "info:session_aborted" ELSE "error:abort_session"}
    /\ trace' = Append(trace, Ev("ret", "abort_session", session_data.session_id, IF SessionCallOk(r) THEN "ok" ELSE "fail"))
    /\ UNCHANGED <<media_type, all_streams, lines_read, session_data, file_mapping, payload_for_select, refreshed>>
    /\ UNCHANGED scan_vars
    /\ UNCHANGED <<bulk_vars, resolve_vars, input_vars, add_vars, more_vars>>

\* abort_session has returned: on success dismiss(None) and the run
\* returns; on failure the mapping screen stays open.
AbortReturn(r) ==
    /\ pc = "aborting"
    /\ IF SessionCallOk(r)
       THEN /\ pc' = "done"
            /\ notified' = notified \cup {"info:session_aborted"}
            /\ trace' = Append(trace, Ev("ret", "abort_session", session_data.session_id, "ok"))
       ELSE /\ pc' = "mapping"
            /\ notified' = notified \cup {"error:abort_session"}
            /\ trace' = Append(trace, Ev("ret", "abort_session", session_data.session_id, "fail"))
    /\ UNCHANGED <<media_type, all_streams, lines_read, session_data, file_mapping, payload_for_select, refreshed>>
    /\ UNCHANGED scan_vars
    /\ UNCHANGED <<bulk_vars, resolve_vars, input_vars, add_vars, more_vars>>

\* select_files returning success followed directly by complete_session.
SelectReturnSkipUpdate(r) ==
    /\ pc = "select"
    /\ IF SessionCallOk(r)
       THEN /\ pc' = "complete"
            /\ trace' = trace \o <<Ev("ret", "select_files", session_data.session_id, "ok"), Ev("call", "complete_session", session_data.session_id, "none")>>
            /\ UNCHANGED notified
       ELSE /\ pc' = "done"
            /\ trace' = Append(trace, Ev("ret", "select_files", session_data.session_id, "fail"))
            /\ notified' = notified \cup {"error:select_files"}
    /\ UNCHANGED <<media_type, all_streams, lines_read, session_data, file_mapping, payload_for_select, refreshed>>
    /\ UNCHANGED scan_vars
    /\ UNCHANGED <<bulk_vars, resolve_vars, input_vars, add_vars, more_vars>>

\* select_files has returned: on success update_attributes is called, on
\* failure "Error selecting file(s)" ends the run.
SelectReturn(r) ==
    /\ pc = "select"
    /\ IF SessionCallOk(r)
       THEN /\ pc' = "update"
            /\ trace' = trace \o <<Ev("ret", "select_files", session_data.session_id, "ok"), Ev("call", "update_attributes", session_data.session_id, "none")>>
            /\ UNCHANGED notified
       ELSE /\ pc' = "done"
            /\ trace' = Append(trace, Ev("ret", "select_files", session_data.session_id, "fail"))
            /\ notified' = notified \cup {"error:select_files"}
    /\ UNCHANGED <<media_type, all_streams, lines_read, session_data, file_mapping, payload_for_select, refreshed>>
    /\ UNCHANGED scan_vars
    /\ UNCHANGED <<bulk_vars, resolve_vars, input_vars, add_vars, more_vars>>

\* update_attributes failing re-opens the mapping screen instead of going on
UpdateReturnReopens(r) ==
    /\ pc = "update"
    /\ IF SessionCallOk(r)
       THEN /\ pc' = "complete"
            /\ trace' = trace \o <<Ev("ret", "update_attributes", session_data.session_id, "ok"), Ev("call", "complete_session", session_data.session_id, "none")>>
       ELSE /\ pc' = "mapping"
            /\ trace' = Append(trace, Ev("ret", "update_attributes", session_data.session_id, "fail"))
    /\ UNCHANGED <<media_type, all_streams, lines_read, session_data, file_mapping, payload_for_select, notified, refreshed>>
    /\ UNCHANGED scan_vars
    /\ UNCHANGED <<bulk_vars, resolve_vars, input_vars, add_vars, more_vars>>

\* update_attributes has returned: its result is discarded and
\* complete_session is called.
UpdateReturn(r) ==
    /\ pc = "update"
    /\ pc' = "complete"
    /\ trace' = trace \o <<Ev("ret", "update_attributes", session_data.session_id, IF SessionCallOk(r) THEN "ok" ELSE "fail"), Ev("call", "complete_session", session_data.session_id, "none")>>
    /\ UNCHANGED <<media_type, all_streams, lines_read, session_data, file_mapping, payload_for_select, notified, refreshed>>
    /\ UNCHANGED scan_vars
    /\ UNCHANGED <<bulk_vars, resolve_vars, input_vars, add_vars, more_vars>>

\* the item is re-fetched whatever complete_session answered
CompleteReturnAlwaysRefresh(r) ==
    /\ pc = "complete"
    /\ pc' = "done"
    /\ refreshed' = TRUE
    /\ IF SessionCallOk(r)
       THEN /\ notified' = notified \cup {"success:scrape_initiated"}
            /\ trace' = Append(trace, Ev("ret", "complete_session", session_data.session_id, "ok"))
       ELSE /\ notified' = notified \cup {"error:finalization"}
            /\ trace' = Append(trace, Ev("ret", "complete_session", session_data.session_id, "fail"))
    /\ UNCHANGED <<media_type, all_streams, lines_read, session_data, file_mapping, payload_for_select>>
    /\ UNCHANGED scan_vars
    /\ UNCHANGED <<bulk_vars, resolve_vars, input_vars, add_vars, more_vars>>

\* complete_session has returned: success is notified and the item is
\* re-fetched, failure is notified as "Finalization Error".
CompleteReturn(r) ==
    /\ pc = "complete"
    /\ pc' = "done"
    /\ IF SessionCallOk(r)
       THEN /\ notified' = notified \cup {"success:scrape_initiated"}
            /\ refreshed' = TRUE
            /\ trace' = Append(trace, Ev("ret", "complete_session", session_data.session_id, "ok"))
       ELSE /\ notified' = notified \cup {"error:finalization"}
            /\ UNCHANGED refreshed
            /\ trace' = Append(trace, Ev("ret", "complete_session", session_data.session_id, "fail"))
    /\ UNCHANGED <<media_type, all_streams, lines_read, session_data, file_mapping, payload_for_select>>
    /\ UNCHANGED scan_vars
    /\ UNCHANGED <<bulk_vars, resolve_vars, input_vars, add_vars, more_vars>>

SessionNext ==
    \/ \E details \in BOOLEAN, mt \in {"movie", "tv", "none"}, item_id \in BOOLEAN, tvdb \in BOOLEAN : StartRun(details, mt, item_id, tvdb)
    \/ \E p \in StreamPayloads : DiscoveryData(p)
    \/ DiscoverySkip
    \/ DiscoveryDone
    \/ DiscoveryClose
    \/ \E k \in StreamKeys : SelectStream(k)
    \/ CancelStreamSelection
    \/ \E r \in StartRaw : StartReturn(r)
    \/ \E r \in HttpOutcomes : MovieParseReturn(r)
    \/ \E r \in HttpOutcomes : TvParseReturn(r)
    \/ \E inputs \in [1..Len(session_data.files) -> RowInputs] : ConfirmMapping(inputs)
    \/ CancelMapping
    \/ AbortSession
    \/ \E r \in HttpOutcomes : AbortReturn(r)
    \/ \E r \in HttpOutcomes : SelectReturn(r)
    \/ \E r \in HttpOutcomes : UpdateReturn(r)
    \/ \E r \in HttpOutcomes : CompleteReturn(r)

SessionSpec ==
    Init /\ [][SessionNext]_vars

\* The user edits the season / episode inputs of the mounted mapping screen
\* (Input.value; the values on_mount pre-fills from the parsed titles are
\* such values too).
EditRows(inputs) ==
    /\ pc = "mapping"
    /\ row_inputs' = inputs
    /\ UNCHANGED session_vars
    /\ UNCHANGED scan_vars
    /\ UNCHANGED <<bulk_vars, resolve_vars, add_vars, more_vars>>

\* Confirm pressed: on_confirm_mapping reads the Input values of the rows.
PressConfirm ==
    /\ Len(row_inputs) = Len(session_data.files)
    /\ ConfirmMapping(row_inputs)

\* One discovery payload and a few answers of start_session: a session with
\* one file, one with two files, "not cached" and a timeout.
FairPayload == [k \in {1} |-> [infohash |-> "h1", failed |-> FALSE]]

FairFileLists == {<<[file_id |-> 1, filesize |-> 5]>>, <<[file_id |-> 1, filesize |-> 5], [file_id |-> 2, filesize |-> 9]>>}

FairStartRaw == {[kind |-> "200_dict", body |-> [set |-> TRUE, session_id |-> "s1", files |-> fl]] : fl \in FairFileLists} \cup {[kind |-> k, body |-> NoSession] : k \in {"detail_not_cached", "timeout"}}

\* _run_manual_scrape with the mapping screen's inputs as state: the rows
\* are edited and Confirm reads them.
SessionFairNext ==
    \/ \E mt \in {"movie", "tv"} : StartRun(TRUE, mt, TRUE, TRUE)
    \/ DiscoveryData(FairPayload)
    \/ DiscoveryDone
    \/ SelectStream(1)
    \/ \E r \in FairStartRaw : StartReturn(r)
    \/ \E r \in HttpOutcomes : MovieParseReturn(r)
    \/ \E r \in HttpOutcomes : TvParseReturn(r)
    \/ \E inputs \in [1..Len(session_data.files) -> RowInputs] : EditRows(inputs)
    \/ PressConfirm
    \/ CancelMapping
    \/ AbortSession
    \/ \E r \in HttpOutcomes : AbortReturn(r)
    \/ \E r \in HttpOutcomes : SelectReturn(r)
    \/ \E r \in HttpOutcomes : UpdateReturn(r)
    \/ \E r \in HttpOutcomes : CompleteReturn(r)

\* Every request of the finalization is answered (the client carries a
\* timeout, so each await of a remote call returns).
SessionFairSpec ==
    /\ Init
    /\ [][SessionFairNext]_vars
    /\ WF_vars(\E r \in HttpOutcomes : SelectReturn(r))
    /\ WF_vars(\E r \in HttpOutcomes : UpdateReturn(r))
    /\ WF_vars(\E r \in HttpOutcomes : CompleteReturn(r))

\* Discovery with error: lines among the lines of the event stream, up to
\* the answer of start_session for the selected stream.
DiscoveryNext ==
    \/ \E mt \in {"movie", "tv"} : StartRun(TRUE, mt, TRUE, TRUE)
    \/ \E p \in StreamPayloads : DiscoveryData(p)
    \/ DiscoverySkip
    \/ DiscoveryError
    \/ DiscoveryDone
    \/ DiscoveryClose
    \/ \E k \in StreamKeys : SelectStream(k)
    \/ CancelStreamSelection
    \/ \E r \in FairStartRaw : StartReturn(r)

DiscoverySpec ==
    Init /\ [][DiscoveryNext]_vars

(***************************************************************************)
(* AdvancedView.on_scan: values.                                           *)
(***************************************************************************)
\* asyncio.Semaphore(10)
ConcurrencyCap == 10

\* Library items a probe may find (the title is a function of the id).
LibItems == {[id |-> 1, type |-> "movie"], [id |-> 2, type |-> "season"], [id |-> 3, type |-> "show"]}

\* item.get("title") of the library item with this id, as its rank in
\* alphabetical order: item 3 is titled "A...", item 1 "B...", item 2 "C...".
TitleOf(id) ==
    CASE id = 3 -> 1
      [] id = 1 -> 2
      [] OTHER -> 3

NoItem == [id |-> 0, type |-> "none"]

\* A watchlist entry; ext = 0 stands for a missing imdb_id / tvdb_id.
Entries == {[ext |-> 0], [ext |-> 1]}

WatchLists(n) ==
    UNION {[1..k -> Entries] : k \in 0..n}

\* What get_mdblist_items may return: (None, error) or (items, None).
\* err: mdb_err is truthy; none: mdb_items is None.  An exception whose text
\* is empty (a timeout) gives (None, ""): no items and a falsy error.
MdbResponses == {[err |-> e, none |-> TRUE, movies |-> <<>>, shows |-> <<>>] : e \in BOOLEAN} \cup {[err |-> FALSE, none |-> FALSE, movies |-> m, shows |-> s] : m \in WatchLists(MaxMovies), s \in WatchLists(MaxShows)}

\* Raw outcomes of the GET of get_items(search=imdb_id, limit=1).
MovieRaw == {[kind |-> "200_items", item |-> it] : it \in LibItems} \cup {[kind |-> k, item |-> NoItem] : k \in {"200_empty", "200_list", "200_items_junk", "200_badjson", "non200", "timeout", "connect_error"}}

\* Raw outcomes of the GET of get_item_by_id("tv", tvdb_id).
ShowRaw == {[kind |-> "200_item", item |-> it] : it \in LibItems} \cup {[kind |-> k, item |-> NoItem] : k \in {"200_null", "200_junk", "200_badjson", "404", "500", "timeout", "connect_error"}}

\* RivenAPI.get_items: (resp.json(), None) on status 200, (None, err_msg)
\* on any other status and on any exception (resp.json() included).
\* resp: "items" ({"items": [item]}), "empty" ({"items": []}), "nondict" (a
\* non-empty JSON list), "junk_items" ({"items": [x]}, x no item), "none".
get_items(r) ==
    CASE r.kind = "200_items" -> [resp |-> "items", item |-> r.item, err |-> FALSE]
      [] r.kind = "200_empty" -> [resp |-> "empty", item |-> NoItem, err |-> FALSE]
      [] r.kind = "200_list" -> [resp |-> "nondict", item |-> NoItem, err |-> FALSE]
      [] r.kind = "200_items_junk" -> [resp |-> "junk_items", item |-> NoItem, err |-> FALSE]
      [] OTHER -> [resp |-> "none", item |-> NoItem, err |-> TRUE]

\* Result of a probe task: "item" (a library item), "absent" (None after a
\* valid not-found answer), "error" (None after a failed request), "noid"
\* (None without a request), "junk" (a truthy value that is no item),
\* "raised" (the task ended in an exception).
Res(kind, item) ==
    [kind |-> kind, item |-> item]

Pending == Res("pending", NoItem)

\* probe_movie after get_items returned: "if resp and resp.get("items"):
\* return resp["items"][0]", else None.
probe_movie(g) ==
    CASE g.resp = "items" -> Res("item", g.item)
      [] g.resp = "junk_items" -> Res("junk", NoItem)
      [] g.resp = "nondict" -> Res("raised", NoItem)
      [] g.resp = "empty" -> Res("absent", NoItem)
      [] OTHER -> Res("error", NoItem)

\* RivenAPI.get_item_by_id as used by probe_show: resp.json() on status
\* 200, None on any other status and on any exception.
get_item_by_id(r) ==
    CASE r.kind = "200_item" -> Res("item", r.item)
      [] r.kind = "200_junk" -> Res("junk", NoItem)
      [] r.kind \in {"200_null", "404"} -> Res("absent", NoItem)
      [] OTHER -> Res("error", NoItem)

\* The tasks of one gather as they stand once each has run to its first
\* suspension: without id finished with None, otherwise holding the
\* semaphore (request in flight) or queued on it, in task order.
ValidTasks(entries) ==
    {i \in DOMAIN entries : entries[i].ext # 0}

TaskRank(entries, i) ==
    Cardinality({j \in ValidTasks(entries) : j <= i})

\* Tasks started without the semaphore.
StartTasksNoGate(entries, permits) ==
    [probes |-> [i \in DOMAIN entries |-> IF entries[i].ext = 0 THEN [st |-> "done", res |-> Res("noid", NoItem)] ELSE [st |-> "inflight", res |-> Pending]],
     value |-> permits,
     waiters |-> <<>>]

StartTasks(entries, permits) ==
    LET nv == Cardinality(ValidTasks(entries))
        nw == IF nv > permits THEN nv - permits ELSE 0
    IN [probes |-> [i \in DOMAIN entries |->
                      IF entries[i].ext = 0 THEN [st |-> "done", res |-> Res("noid", NoItem)]
                      ELSE IF TaskRank(entries, i) <= permits THEN [st |-> "inflight", res |-> Pending]
                      ELSE [st |-> "waiting", res |-> Pending]],
        value |-> IF nv > permits THEN 0 ELSE permits - nv,
        waiters |-> [k \in 1..nw |-> CHOOSE i \in ValidTasks(entries) : TaskRank(entries, i) = permits + k]]

\* A task leaves "async with semaphore" with result res: the permit goes to
\* the first queued task, or back to the semaphore.
Release(probes, i, res) ==
    IF sem_waiters # <<>>
    THEN [probes |-> [probes EXCEPT ![i] = [st |-> "done", res |-> res], ![Head(sem_waiters)] = [st |-> "inflight", res |-> Pending]],
          value |-> sem_value,
          waiters |-> Tail(sem_waiters)]
    ELSE [probes |-> [probes EXCEPT ![i] = [st |-> "done", res |-> res]],
          value |-> sem_value + 1,
          waiters |-> sem_waiters]

InFlight ==
    Cardinality({i \in DOMAIN movie_probe : movie_probe[i].st = "inflight"}) + Cardinality({i \in DOMAIN show_probe : show_probe[i].st = "inflight"})

AllDone(probes) ==
    \A i \in DOMAIN probes : probes[i].st = "done"

(***************************************************************************)
(* on_scan, step 3: process_match and the missing lists.                   *)
(***************************************************************************)
\* process_match(item)
process_match(acc, item) ==
    [acc EXCEPT !.matched = DictUpdate(acc.matched, [k \in {item.id} |-> item]),
                !.counts = IF item.type \in {"movie", "show"} THEN [acc.counts EXCEPT !.root = @ + 1]
                           ELSE IF item.type = "season" THEN [acc.counts EXCEPT !.season = @ + 1]
                           ELSE IF item.type = "episode" THEN [acc.counts EXCEPT !.episode = @ + 1]
                           ELSE acc.counts,
                !.root = IF item.type \in {"movie", "show"} THEN Append(acc.root, item.id) ELSE acc.root]

\* a missing show is counted but not kept in missing_shows
add_missingMoviesOnly(acc, which, entry) ==
    [acc EXCEPT !.counts = [acc.counts EXCEPT !.missing = @ + 1],
                !.mm = IF which = "movie" THEN Append(acc.mm, entry) ELSE acc.mm]

\* the else branch of the two result loops
add_missing(acc, which, entry) ==
    [acc EXCEPT !.counts = [acc.counts EXCEPT !.missing = @ + 1],
                !.mm = IF which = "movie" THEN Append(acc.mm, entry) ELSE acc.mm,
                !.ms = IF which = "show" THEN Append(acc.ms, entry) ELSE acc.ms]

\* One of the loops "for i, res in enumerate(results)", from index i on; a
\* truthy result that is no item makes process_match raise.
RECURSIVE Classify(_, _, _, _, _)
Classify(acc, probes, entries, which, i) ==
    IF i > Len(probes) \/ acc.crashed THEN acc
    ELSE LET res == probes[i].res
         IN Classify(IF res.kind = "item" THEN process_match(acc, res.item)
                     ELSE IF res.kind = "junk" THEN [acc EXCEPT !.crashed = TRUE]
                     ELSE add_missing(acc, which, entries[i]),
                     probes, entries, which, i + 1)

(***************************************************************************)
(* AdvancedView.on_scan: actions.                                          *)
(***************************************************************************)
\* The Scan button (not reachable while a modal ConfirmationScreen covers
\* the view): an empty input is refused, otherwise the lists are cleared and
\* the watchlist is requested.
ScanStart(input_empty) ==
    /\ scan_pc = "idle"
    /\ NoDialogOpen
    /\ IF input_empty
       THEN /\ status' = "error:input_empty"
            /\ UNCHANGED <<scan_pc, list_root, missing_movies, missing_shows>>
       ELSE /\ status' = "fetching"
            /\ scan_pc' = "fetching"
            /\ list_root' = <<>>
            /\ missing_movies' = <<>>
            /\ missing_shows' = <<>>
    /\ UNCHANGED <<all_mdb_movies, all_mdb_shows, movie_probe, show_probe, sem_value, sem_waiters, matched_items, counts>>
    /\ UNCHANGED session_vars
    /\ UNCHANGED <<bulk_vars, resolve_vars, input_vars, add_vars, more_vars>>

\* get_mdblist_items has returned: stop on an error or an empty list,
\* otherwise reset matched_items, create the semaphore and gather the
\* movie probes.  With (None, "") "if mdb_err" is false and mdb_items.get
\* raises, which ends on_scan.
ScanFetchReturn(resp) ==
    /\ scan_pc = "fetching"
    /\ IF resp.err
       THEN /\ status' = "error:mdblist"
            /\ scan_pc' = "stopped"
            /\ UNCHANGED <<all_mdb_movies, all_mdb_shows, movie_probe, sem_value, sem_waiters, matched_items>>
       ELSE IF resp.none
       THEN /\ scan_pc' = "crashed"
            /\ UNCHANGED <<status, all_mdb_movies, all_mdb_shows, movie_probe, sem_value, sem_waiters, matched_items>>
       ELSE IF Len(resp.movies) = 0 /\ Len(resp.shows) = 0
       THEN /\ status' = "warning:mdblist_empty"
            /\ scan_pc' = "stopped"
            /\ UNCHANGED <<all_mdb_movies, all_mdb_shows, movie_probe, sem_value, sem_waiters, matched_items>>
       ELSE LET t == StartTasks(resp.movies, ConcurrencyCap)
            IN /\ status' = "probing"
               /\ scan_pc' = "movies"
               /\ all_mdb_movies' = resp.movies
               /\ all_mdb_shows' = resp.shows
               /\ matched_items' = EmptyDict
               /\ movie_probe' = t.probes
               /\ sem_value' = t.value
               /\ sem_waiters' = t.waiters
    /\ UNCHANGED <<show_probe, counts, list_root, missing_movies, missing_shows>>
    /\ UNCHANGED session_vars
    /\ UNCHANGED <<bulk_vars, resolve_vars, input_vars, add_vars, more_vars>>

\* The request of movie task i has been answered.  An exception of the
\* task ends the gather and with it on_scan; the other tasks run on.
ProbeMovieReturn(i, r) ==
    /\ i \in DOMAIN movie_probe
    /\ movie_probe[i].st = "inflight"
    /\ LET res == probe_movie(get_items(r))
           t == Release(movie_probe, i, res)
       IN /\ movie_probe' = t.probes
          /\ sem_value' = t.value
          /\ sem_waiters' = t.waiters
          /\ scan_pc' = IF res.kind = "raised" /\ scan_pc = "movies" THEN "crashed" ELSE scan_pc
    /\ UNCHANGED <<all_mdb_movies, all_mdb_shows, show_probe, matched_items, counts, list_root, missing_movies, missing_shows, status>>
    /\ UNCHANGED session_vars
    /\ UNCHANGED <<bulk_vars, resolve_vars, input_vars, add_vars, more_vars>>

\* "movie_results = await asyncio.gather(*movie_tasks)" has returned: the
\* show probes are gathered.
MoviesGathered ==
    /\ scan_pc = "movies"
    /\ AllDone(movie_probe)
    /\ LET t == StartTasks(all_mdb_shows, sem_value)
       IN /\ show_probe' = t.probes
          /\ sem_value' = t.value
          /\ sem_waiters' = t.waiters
    /\ scan_pc' = "shows"
    /\ UNCHANGED <<all_mdb_movies, all_mdb_shows, movie_probe, matched_items, counts, list_root, missing_movies, missing_shows, status>>
    /\ UNCHANGED session_vars
    /\ UNCHANGED <<bulk_vars, resolve_vars, input_vars, add_vars, more_vars>>

\* The request of show task i has been answered.
ProbeShowReturn(i, r) ==
    /\ i \in DOMAIN show_probe
    /\ show_probe[i].st = "inflight"
    /\ LET t == Release(show_probe, i, get_item_by_id(r))
       IN /\ show_probe' = t.probes
          /\ sem_value' = t.value
          /\ sem_waiters' = t.waiters
    /\ UNCHANGED <<scan_pc, all_mdb_movies, all_mdb_shows, movie_probe, matched_items, counts, list_root, missing_movies, missing_shows, status>>
    /\ UNCHANGED session_vars
    /\ UNCHANGED <<bulk_vars, resolve_vars, input_vars, add_vars, more_vars>>

\* "show_results = await asyncio.gather(*show_tasks)" has returned: steps 3
\* and 4 of on_scan run without suspension.
ShowsGathered ==
    /\ scan_pc = "shows"
    /\ AllDone(show_probe)
    /\ LET acc0 == [matched |-> matched_items, counts |-> NoCounts, root |-> list_root, mm |-> missing_movies, ms |-> missing_shows, crashed |-> FALSE]
           acc1 == Classify(acc0, movie_probe, all_mdb_movies, "movie", 1)
           acc2 == Classify(acc1, show_probe, all_mdb_shows, "show", 1)
       IN /\ matched_items' = acc2.matched
          /\ counts' = acc2.counts
          /\ list_root' = acc2.root
          /\ missing_movies' = acc2.mm
          /\ missing_shows' = acc2.ms
          /\ scan_pc' = IF acc2.crashed THEN "crashed" ELSE "done"
          /\ status' = IF acc2.crashed THEN status ELSE "scan_complete"
          /\ btn_disabled' = IF acc2.crashed THEN btn_disabled ELSE (acc2.counts.root = 0)
    /\ UNCHANGED <<all_mdb_movies, all_mdb_shows, movie_probe, show_probe, sem_value, sem_waiters>>
    /\ UNCHANGED session_vars
    /\ UNCHANGED <<bulk_pc, actionable_ids, unsupported_items, batch_i, success_count, fail_count, bulk_log, bulk_report>>
    /\ UNCHANGED <<resolve_vars, input_vars, add_vars, more_vars>>

ScanNext ==
    \/ \E input_empty \in BOOLEAN : ScanStart(input_empty)
    \/ \E resp \in MdbResponses : ScanFetchReturn(resp)
    \/ \E i \in 1..MaxMovies, r \in MovieRaw : ProbeMovieReturn(i, r)
    \/ MoviesGathered
    \/ \E i \in 1..MaxShows, r \in ShowRaw : ProbeShowReturn(i, r)
    \/ ShowsGathered

ScanSpec ==
    Init /\ [][ScanNext]_vars

\* A watchlist longer than the semaphore is wide; the probes answer with an
\* empty result, a failure or a body that makes the task raise.
CapMdbResponses == {[err |-> FALSE, none |-> FALSE, movies |-> [i \in 1..CapMovies |-> [ext |-> 1]], shows |-> [i \in 1..CapShows |-> [ext |-> 1]]]}

CapMovieRaw == {[kind |-> k, item |-> NoItem] : k \in {"timeout", "200_list"}}

CapShowRaw == {[kind |-> k, item |-> NoItem] : k \in {"404", "timeout"}}

ScanCapNext ==
    \/ ScanStart(FALSE)
    \/ \E resp \in CapMdbResponses : ScanFetchReturn(resp)
    \/ \E i \in 1..CapMovies, r \in CapMovieRaw : ProbeMovieReturn(i, r)
    \/ MoviesGathered
    \/ \E i \in 1..CapShows, r \in CapShowRaw : ProbeShowReturn(i, r)
    \/ ShowsGathered

ScanCapSpec ==
    Init /\ [][ScanCapNext]_vars

(***************************************************************************)
(* AdvancedView.run_action (Mass Delete / Reset / Retry).                  *)
(***************************************************************************)
\* The match set a scan leaves behind that found u seasons first and then
\* n movies and shows.
MatchedAfterScan(n, u) ==
    [k \in 1..(n + u) |-> [id |-> k, type |-> IF k <= u THEN "season" ELSE IF k % 2 = 0 THEN "show" ELSE "movie"]]

\* The advanced view after a completed scan with at least one library
\* match: on_scan has returned and has enabled the bulk buttons.
BulkInit ==
    /\ SessionInit
    /\ ResolveIdle
    /\ InputIdle
    /\ AddIdle
    /\ MoreIdle
    /\ \E n \in 1..MaxIds, u \in 0..MaxUnsupported :
           /\ matched_items = MatchedAfterScan(n, u)
           /\ counts = [root |-> n, season |-> u, episode |-> 0, missing |-> 0]
           /\ list_root = [k \in 1..n |-> k + u]
    /\ scan_pc = "idle"
    /\ all_mdb_movies = <<>>
    /\ all_mdb_shows = <<>>
    /\ movie_probe = <<>>
    /\ show_probe = <<>>
    /\ sem_value = 0
    /\ sem_waiters = <<>>
    /\ missing_movies = <<>>
    /\ missing_shows = <<>>
    /\ status = "scan_complete"
    /\ btn_disabled = FALSE
    /\ bulk_pc = "idle"
    /\ actionable_ids = <<>>
    /\ unsupported_items = 0
    /\ batch_i = 0
    /\ success_count = 0
    /\ fail_count = 0
    /\ bulk_log = <<>>
    /\ bulk_report = NoReport

\* run_action sending every matched item, whatever its type
RunActionAllItems ==
    /\ bulk_pc = "idle"
    /\ ~btn_disabled
    /\ NoDialogOpen
    /\ IF DOMAIN matched_items = {}
       THEN /\ bulk_pc' = "returned"
            /\ UNCHANGED <<actionable_ids, unsupported_items>>
       ELSE /\ actionable_ids' = DictKeys(matched_items)
            /\ unsupported_items' = 0
            /\ bulk_pc' = "confirm"
    /\ UNCHANGED <<notified, btn_disabled, batch_i, success_count, fail_count, bulk_log, bulk_report>>
    /\ UNCHANGED <<pc, media_type, all_streams, lines_read, session_data, file_mapping, payload_for_select, trace, refreshed>>
    /\ UNCHANGED scan_vars
    /\ UNCHANGED <<resolve_vars, input_vars, add_vars, more_vars>>

\* on_delete_click / on_reset_click / on_retry_click start run_action as a
\* worker; run_action up to its first await: the actionable ids and the
\* unsupported items are separated and the confirmation is asked for.  (One
\* job per behaviour.)
RunAction ==
    /\ bulk_pc = "idle"
    /\ ~btn_disabled
    /\ NoDialogOpen
    /\ IF DOMAIN matched_items = {}
       THEN /\ bulk_pc' = "returned"
            /\ UNCHANGED <<actionable_ids, unsupported_items, notified>>
       ELSE LET IsRoot(k) == matched_items[k].type \in {"movie", "show"}
                ids == SelectSeq(DictKeys(matched_items), IsRoot)
            IN /\ actionable_ids' = ids
               /\ unsupported_items' = Cardinality({k \in DOMAIN matched_items : ~IsRoot(k)})
               /\ IF Len(ids) > 0
                  THEN /\ bulk_pc' = "confirm"
                       /\ UNCHANGED notified
                  ELSE /\ bulk_pc' = "returned"
                       /\ notified' = notified \cup {"warning:no_actionable_roots"}
    /\ UNCHANGED <<btn_disabled, batch_i, success_count, fail_count, bulk_log, bulk_report>>
    /\ UNCHANGED <<pc, media_type, all_streams, lines_read, session_data, file_mapping, payload_for_select, trace, refreshed>>
    /\ UNCHANGED scan_vars
    /\ UNCHANGED <<resolve_vars, input_vars, add_vars, more_vars>>

\* the loop entered whatever the dialog returned
ConfirmActionIgnoresAnswer(confirmed) ==
    /\ bulk_pc = "confirm"
    /\ dialog_log' = Append(dialog_log, [job |-> "bulk", answer |-> confirmed])
    /\ bulk_pc' = "chunk"
    /\ bulk_log' = bulk_log \o FirstRequests(actionable_ids)
    /\ status' = "bulk_progress"
    /\ UNCHANGED <<btn_disabled, actionable_ids, unsupported_items, batch_i, success_count, fail_count, bulk_report>>
    /\ UNCHANGED <<scan_pc, all_mdb_movies, all_mdb_shows, movie_probe, show_probe, sem_value, sem_waiters, matched_items, counts, list_root, missing_movies, missing_shows>>
    /\ UNCHANGED session_vars
    /\ UNCHANGED <<resolve_vars, input_vars, add_vars, log_vars, export_vars, import_vars>>

\* ConfirmationScreen has been answered: "if not confirmed: return",
\* otherwise the loop is entered and the first chunk is requested.
ConfirmAction(confirmed) ==
    /\ bulk_pc = "confirm"
    /\ dialog_log' = Append(dialog_log, [job |-> "bulk", answer |-> confirmed])
    /\ IF confirmed
       THEN /\ bulk_pc' = "chunk"
            /\ bulk_log' = bulk_log \o FirstRequests(actionable_ids)
            /\ status' = "bulk_progress"
       ELSE /\ bulk_pc' = "returned"
            /\ UNCHANGED <<bulk_log, status>>
    /\ UNCHANGED <<btn_disabled, actionable_ids, unsupported_items, batch_i, success_count, fail_count, bulk_report>>
    /\ UNCHANGED <<scan_pc, all_mdb_movies, all_mdb_shows, movie_probe, show_probe, sem_value, sem_waiters, matched_items, counts, list_root, missing_movies, missing_shows>>
    /\ UNCHANGED session_vars
    /\ UNCHANGED <<resolve_vars, input_vars, add_vars, log_vars, export_vars, import_vars>>

\* bulk_action of the chunk at batch_i has returned.  On success the chunk
\* is counted as processed; on failure it is counted as failed and the
\* titles of the ids named by the error text are looked up in
\* self.matched_items (a KeyError when the id is no longer there).  Then
\* the next chunk is requested, or after the last one the report is shown
\* and the match set, the lists and the buttons are reset.
BulkReturn(r) ==
    /\ bulk_pc = "chunk"
    /\ LET batch == Batch(actionable_ids, batch_i)
           ans == bulk_action(r)
           raised == ~ans.success /\ ans.names_id /\ batch[1] \notin DOMAIN matched_items
           next_i == batch_i + batch_size
           succ == IF ans.success THEN success_count + Len(batch) ELSE success_count
       IN /\ success_count' = succ
          /\ fail_count' = IF ans.success THEN fail_count ELSE fail_count + Len(batch)
          /\ IF raised
             THEN /\ bulk_pc' = "crashed"
                  /\ bulk_log' = Append(bulk_log, BulkEv("ret", batch, FALSE))
                  /\ UNCHANGED <<batch_i, status, bulk_report, matched_items, list_root, btn_disabled>>
             ELSE IF next_i < Len(actionable_ids)
             THEN /\ bulk_pc' = "chunk"
                  /\ batch_i' = next_i
                  /\ bulk_log' = bulk_log \o <<BulkEv("ret", batch, ans.success), BulkEv("call", Batch(actionable_ids, next_i), TRUE)>>
                  /\ status' = "bulk_progress"
                  /\ UNCHANGED <<bulk_report, matched_items, list_root, btn_disabled>>
             ELSE /\ bulk_pc' = "complete"
                  /\ bulk_log' = Append(bulk_log, BulkEv("ret", batch, ans.success))
                  /\ status' = "bulk_complete"
                  /\ bulk_report' = CompleteReport(succ, unsupported_items)
                  /\ matched_items' = EmptyDict
                  /\ list_root' = <<>>
                  /\ btn_disabled' = TRUE
                  /\ UNCHANGED batch_i
    /\ UNCHANGED <<actionable_ids, unsupported_items>>
    /\ UNCHANGED <<scan_pc, all_mdb_movies, all_mdb_shows, movie_probe, show_probe, sem_value, sem_waiters, counts, missing_movies, missing_shows>>
    /\ UNCHANGED session_vars
    /\ UNCHANGED <<resolve_vars, input_vars, add_vars, more_vars>>

\* The scan that may run while a job runs: one watchlist movie, found or
\* not answered.
BulkMdbResponses == {[err |-> FALSE, none |-> FALSE, movies |-> <<[ext |-> 1]>>, shows |-> <<>>], [err |-> TRUE, none |-> TRUE, movies |-> <<>>, shows |-> <<>>], [err |-> FALSE, none |-> FALSE, movies |-> <<>>, shows |-> <<>>]}

BulkMovieRaw == {[kind |-> "200_items", item |-> [id |-> 1, type |-> "movie"]], [kind |-> "timeout", item |-> NoItem]}

BulkNext ==
    \/ RunAction
    \/ \E confirmed \in BOOLEAN : ConfirmAction(confirmed)
    \/ \E r \in BulkRaw : BulkReturn(r)
    \/ ScanStart(FALSE)
    \/ \E resp \in BulkMdbResponses : ScanFetchReturn(resp)
    \/ \E r \in BulkMovieRaw : ProbeMovieReturn(1, r)
    \/ MoviesGathered
    \/ ShowsGathered

BulkSpec ==
    BulkInit /\ [][BulkNext]_vars

(***************************************************************************)
(* AdvancedView.perform_mass_add (Mass Add of the missing items).          *)
(***************************************************************************)
\* Missing watchlist movies as a scan leaves them: tmdb = 0 stands for an
\* entry without "tmdbid" / "tmdb_id".
MissingMovies == UNION {[1..k -> {[ext |-> 1, tmdb |-> t] : t \in {0, 1}}] : k \in 0..MaxMissingMovies}

\* Missing watchlist shows (ext is the tvdb_id, 0 when absent).
MissingShows == WatchLists(MaxMissingShows)

\* target_id of process_batch (0: falsy)
TargetId(item, m_type) ==
    IF m_type = "movie" THEN item.tmdb ELSE item.ext

\* batch = items[i:i+5]
AddBatch(items, i) ==
    SubSeq(items, i + 1, IF i + 5 <= Len(items) THEN i + 5 ELSE Len(items))

\* batch_ids: the truthy target ids of the batch, in order
BatchIds(batch, m_type) ==
    LET ids == [k \in DOMAIN batch |-> TargetId(batch[k], m_type)]
    IN SelectSeq(ids, LAMBDA x : x # 0)

AddEv(ev, m_type, ids) ==
    [ev |-> ev, m_type |-> m_type, ids |-> ids]

\* perform_mass_add from the head of a loop iteration of process_batch(items,
\* m_type, ...) with loop variable i, up to its next suspension: the
\* sleep(2) of a chunk, the end of the job, or the exception of a chunk
\* with ids: RivenAPI (api.py) defines add_item, bulk_action, ... but no
\* bulk_add_items, so evaluating self.app.api.bulk_add_items raises
\* AttributeError before any request is made.  st: the new add_pc.
RECURSIVE RunChunks(_, _, _, _)
RunChunks(m_type, items, i, log) ==
    IF i >= Len(items)
    THEN IF m_type = "movie" /\ Len(missing_shows) > 0
         THEN RunChunks("tv", missing_shows, 0, log)
         ELSE [st |-> "complete", m_type |-> m_type, items |-> items, i |-> i, log |-> log]
    ELSE LET batch_ids == BatchIds(AddBatch(items, i), m_type)
             log1 == Append(log, AddEv("chunk", m_type, batch_ids))
         IN IF Len(batch_ids) > 0
            THEN [st |-> "crashed", m_type |-> m_type, items |-> items, i |-> i, log |-> Append(log1, AddEv("raised", m_type, batch_ids))]
            ELSE [st |-> "pause", m_type |-> m_type, items |-> items, i |-> i, log |-> Append(log1, AddEv("pause", m_type, <<>>))]

\* The advanced view after a scan that found missing items (or none): the
\* missing lists are filled and no job runs.
MassAddInit ==
    /\ SessionInit
    /\ BulkIdle
    /\ ResolveIdle
    /\ InputIdle
    /\ AddIdle
    /\ MoreIdle
    /\ missing_movies \in MissingMovies
    /\ missing_shows \in MissingShows
    /\ counts = [NoCounts EXCEPT !.missing = Len(missing_movies) + Len(missing_shows)]
    /\ scan_pc = "done"
    /\ all_mdb_movies = <<>>
    /\ all_mdb_shows = <<>>
    /\ movie_probe = <<>>
    /\ show_probe = <<>>
    /\ sem_value = 0
    /\ sem_waiters = <<>>
    /\ matched_items = EmptyDict
    /\ list_root = <<>>
    /\ status = "scan_complete"

\* on_add_click starts perform_mass_add as a worker; perform_mass_add up to
\* its first await (the confirmation), or its return when nothing is
\* missing.  (One job per behaviour.)
AddClick ==
    /\ add_pc = "idle"
    /\ NoDialogOpen
    /\ add_pc' = IF Len(missing_movies) + Len(missing_shows) = 0 THEN "returned" ELSE "confirm"
    /\ UNCHANGED <<add_m_type, add_items, add_i, add_log>>
    /\ UNCHANGED <<session_vars, scan_vars, bulk_vars, resolve_vars, input_vars, more_vars>>

\* The confirmation has been answered: return, or run the movies and then
\* the shows up to the first suspension.
AddConfirm(confirmed) ==
    /\ add_pc = "confirm"
    /\ dialog_log' = Append(dialog_log, [job |-> "add", answer |-> confirmed])
    /\ IF ~confirmed
       THEN /\ add_pc' = "returned"
            /\ UNCHANGED <<add_m_type, add_items, add_i, add_log, status>>
       ELSE LET t == IF Len(missing_movies) > 0 THEN RunChunks("movie", missing_movies, 0, add_log) ELSE RunChunks("tv", missing_shows, 0, add_log)
            IN /\ add_pc' = t.st
               /\ add_m_type' = t.m_type
               /\ add_items' = t.items
               /\ add_i' = t.i
               /\ add_log' = t.log
               /\ status' = IF t.st = "complete" THEN "mass_add_complete" ELSE status
    /\ UNCHANGED <<scan_pc, all_mdb_movies, all_mdb_shows, movie_probe, show_probe, sem_value, sem_waiters, matched_items, counts, list_root, missing_movies, missing_shows>>
    /\ UNCHANGED <<session_vars, bulk_vars, resolve_vars, input_vars, log_vars, export_vars, import_vars>>

\* asyncio.sleep(2) has returned: the next chunk, the next list or the end
\* of the job.
AddPauseEnd ==
    /\ add_pc = "pause"
    /\ LET t == RunChunks(add_m_type, add_items, add_i + 5, Append(add_log, AddEv("pause_end", add_m_type, <<>>)))
       IN /\ add_pc' = t.st
          /\ add_m_type' = t.m_type
          /\ add_items' = t.items
          /\ add_i' = t.i
          /\ add_log' = t.log
          /\ status' = IF t.st = "complete" THEN "mass_add_complete" ELSE status
    /\ UNCHANGED <<scan_pc, all_mdb_movies, all_mdb_shows, movie_probe, show_probe, sem_value, sem_waiters, matched_items, counts, list_root, missing_movies, missing_shows>>
    /\ UNCHANGED <<session_vars, bulk_vars, resolve_vars, input_vars, more_vars>>

MassAddNext ==
    \/ AddClick
    \/ \E confirmed \in BOOLEAN : AddConfirm(confirmed)
    \/ AddPauseEnd

MassAddSpec ==
    MassAddInit /\ [][MassAddNext]_vars

(***************************************************************************)
(* AdvancedView.on_export (Backup) and the file riven_export.json.         *)
(***************************************************************************)
\* limit=500 of the page requests
page_limit == 500

\* math.ceil(total / 500)
CeilPages(total) ==
    (total + page_limit - 1) \div page_limit

\* Library items as on_export reads them: type and parent_ids.tmdb_id /
\* parent_ids.tvdb_id (0: the key is missing, or parent_ids is).
ExportItems == {[type |-> "movie", p_tmdb |-> 5, p_tvdb |-> 0], [type |-> "movie", p_tmdb |-> 0, p_tvdb |-> 0], [type |-> "show", p_tmdb |-> 0, p_tvdb |-> 6]}

\* Answers of get_items(limit=1, item_type=[movie, show]): ok is "not err
\* and resp"; total is resp["total_items"], 0 or such that 1..MaxPages
\* pages are needed.
ExportCountResps == {[ok |-> FALSE, total |-> 0]} \cup {[ok |-> TRUE, total |-> t] : t \in {0} \cup {page_limit * (k - 1) + 1 : k \in 1..MaxPages}}

\* Answers of get_items(limit=500, page=page, ...): ok is "page_resp and
\* 'items' in page_resp".
ExportPageResps == {[ok |-> FALSE, items |-> <<>>]} \cup {[ok |-> TRUE, items |-> its] : its \in UNION {[1..n -> ExportItems] : n \in 0..MaxPageItems}}

\* val of an item: the id the entry is written with, 0 for none.
ExportVal(item) ==
    IF item.type = "movie" THEN item.p_tmdb
    ELSE IF item.type = "show" THEN item.p_tvdb
    ELSE 0

\* The lines f.write produces for one page: an entry per item with a val,
\* followed by a comma unless the item is the last item of the last page.
PageLines(items, page, total_pages) ==
    LET F[i \in 0..Len(items)] ==
            IF i = 0 THEN <<>>
            ELSE IF ExportVal(items[i]) = 0 THEN F[i - 1]
            ELSE Append(F[i - 1], [type |-> items[i].type, id |-> ExportVal(items[i]), comma |-> ~(page = total_pages /\ i = Len(items))])
    IN F[Len(items)]

\* The {type, id} record of a line.
RecordOf(line) ==
    [type |-> line.type, id |-> line.id]

\* json.load of the file: it parses when the closing bracket is there, a
\* comma stands between two entries and none after the last one; the
\* result is then the list of the records.
JsonLoad(file) ==
    LET n == Len(file.lines)
        wf == file.exists /\ file.closed /\ \A i \in 1..n : file.lines[i].comma <=> i < n
    IN [ok |-> wf, records |-> IF wf THEN [i \in 1..n |-> RecordOf(file.lines[i])] ELSE <<>>]

\* The Backup button: on_export up to its first await, the count request.
ExportStart ==
    /\ export_pc = "idle"
    /\ NoDialogOpen
    /\ export_pc' = "count"
    /\ UNCHANGED <<export_total_pages, export_page, export_count, export_file>>
    /\ UNCHANGED scan_vars
    /\ UNCHANGED <<session_vars, bulk_vars, resolve_vars, input_vars, add_vars, log_vars, dialog_vars, import_vars>>

\* The count request has returned: "Export Error", "Library is empty.", or
\* the file is opened for writing, "[" is written and page 1 is requested.
ExportCountReturn(resp) ==
    /\ export_pc = "count"
    /\ IF ~resp.ok
       THEN /\ export_pc' = "error"
            /\ UNCHANGED <<export_total_pages, export_page, export_count, export_file>>
       ELSE IF resp.total = 0
       THEN /\ export_pc' = "empty"
            /\ UNCHANGED <<export_total_pages, export_page, export_count, export_file>>
       ELSE /\ export_pc' = "page"
            /\ export_total_pages' = CeilPages(resp.total)
            /\ export_page' = 1
            /\ export_count' = 0
            /\ export_file' = [exists |-> TRUE, lines |-> <<>>, closed |-> FALSE]
    /\ UNCHANGED scan_vars
    /\ UNCHANGED <<session_vars, bulk_vars, resolve_vars, input_vars, add_vars, log_vars, dialog_vars, import_vars>>

\* The request of page export_page has returned: its entries are written
\* (none when the request failed); then the next page is requested, or
\* after the last page "]" is written and "Export complete!" is shown.
ExportPageReturn(resp) ==
    /\ export_pc = "page"
    /\ LET lines == IF resp.ok THEN PageLines(resp.items, export_page, export_total_pages) ELSE <<>>
           last == export_page = export_total_pages
       IN /\ export_file' = [export_file EXCEPT !.lines = @ \o lines, !.closed = last]
          /\ export_count' = export_count + Len(lines)
          /\ export_page' = IF last THEN export_page ELSE export_page + 1
          /\ export_pc' = IF last THEN "complete" ELSE "page"
    /\ UNCHANGED export_total_pages
    /\ UNCHANGED scan_vars
    /\ UNCHANGED <<session_vars, bulk_vars, resolve_vars, input_vars, add_vars, log_vars, dialog_vars, import_vars>>

ExportNext ==
    \/ ExportStart
    \/ \E resp \in ExportCountResps : ExportCountReturn(resp)
    \/ \E resp \in ExportPageResps : ExportPageReturn(resp)

ExportSpec ==
    Init /\ [][ExportNext]_vars

(***************************************************************************)
(* AdvancedView.perform_import (Restore).                                  *)
(***************************************************************************)
\* Library items as the sync of perform_import reads them: tmdb is
\* item.get("tmdb_id") or parent_ids.get("tmdb_id"), tvdb likewise (0:
\* none).
SyncItems == {[type |-> "movie", tmdb |-> 5, tvdb |-> 0], [type |-> "show", tmdb |-> 0, tvdb |-> 5], [type |-> "show", tmdb |-> 0, tvdb |-> 6]}

\* Answers of get_items(limit=1): ok is "resp" being truthy; pages is
\* ceil(total_items / 500).
SyncCountResps == {[ok |-> FALSE, pages |-> 0]} \cup {[ok |-> TRUE, pages |-> k] : k \in 0..MaxSyncPages}

\* Answers of get_items(limit=500, page=page): ok is "page_resp and 'items'
\* in page_resp".
SyncPageResps == {[ok |-> FALSE, items |-> {}]} \cup {[ok |-> TRUE, items |-> S] : S \in SUBSET SyncItems}

\* The ids a page adds to existing_ids: tmdb and tvdb ids in one set.
IdsOf(items) ==
    ({it.tmdb : it \in items} \cup {it.tvdb : it \in items}) \ {0}

\* The {type, id} records a backup file may hold.
ImportRecords == {[type |-> "movie", id |-> 5], [type |-> "show", id |-> 5], [type |-> "show", id |-> 6]}

\* The lines of a well-formed file with these records.
LinesOf(records) ==
    [i \in DOMAIN records |-> [type |-> records[i].type, id |-> records[i].id, comma |-> i < Len(records)]]

\* riven_export.json when Restore is pressed: absent, a file whose last
\* entry is followed by a comma, or a well-formed list of records.
ImportFiles == {NoFile, [exists |-> TRUE, lines |-> <<[type |-> "movie", id |-> 5, comma |-> TRUE]>>, closed |-> TRUE]} \cup {[exists |-> TRUE, lines |-> LinesOf(recs), closed |-> TRUE] : recs \in UNION {[1..n -> ImportRecords] : n \in 0..MaxRecords}}

\* for i in range(0, len(items), 50): batch = items[i:i + 50]
ImportBatch(items, i) ==
    SubSeq(items, i + 1, IF i + batch_size < Len(items) THEN i + batch_size ELSE Len(items))

\* perform_import from "3. Read and filter import file" on, with the
\* existing ids synced so far, up to its next suspension or its end:
\* "Read Error"; every record skipped ("Import complete: ... skipped"); or
\* the first chunk of process_batches, whose call
\* self.app.api.bulk_add_items(...) raises AttributeError (RivenAPI defines
\* no such method), which ends the worker.
ReadAndImport(ids) ==
    LET load == JsonLoad(export_file)
        recs == load.records
        IsNew(r) == r.id \notin ids
        IsMovie(r) == r.type = "movie"
        NotMovie(r) == r.type # "movie"
        fresh == SelectSeq(recs, IsNew)
        movies == [i \in DOMAIN SelectSeq(fresh, IsMovie) |-> SelectSeq(fresh, IsMovie)[i].id]
        shows == [i \in DOMAIN SelectSeq(fresh, NotMovie) |-> SelectSeq(fresh, NotMovie)[i].id]
        first == IF Len(movies) > 0 THEN AddEv("chunk", "movie", ImportBatch(movies, 0)) ELSE AddEv("chunk", "tv", ImportBatch(shows, 0))
    IN IF ~load.ok
       THEN /\ import_pc' = "read_error"
            /\ UNCHANGED <<new_movies, new_shows, skipped_count, import_log>>
       ELSE /\ new_movies' = movies
            /\ new_shows' = shows
            /\ skipped_count' = Len(recs) - Len(fresh)
            /\ IF Len(fresh) = 0
               THEN /\ import_pc' = "complete"
                    /\ UNCHANGED import_log
               ELSE /\ import_pc' = "crashed"
                    /\ import_log' = import_log \o <<first, AddEv("raised", first.m_type, first.ids)>>

\* on_import_click starts perform_import as a worker; perform_import up to
\* its first await: "not found" when the file is absent, otherwise the
\* confirmation is asked for.  (One job per behaviour.)
ImportClick ==
    /\ import_pc = "idle"
    /\ NoDialogOpen
    /\ import_pc' = IF export_file.exists THEN "confirm" ELSE "no_file"
    /\ UNCHANGED <<import_total_pages, import_page, existing_ids, synced, new_movies, new_shows, skipped_count, imported_count, error_count, import_log>>
    /\ UNCHANGED <<session_vars, scan_vars, bulk_vars, resolve_vars, input_vars, add_vars, log_vars, dialog_vars, export_vars>>

\* The confirmation has been answered: "if not confirmed: return",
\* otherwise the count request of the library sync is made.
ImportConfirm(confirmed) ==
    /\ import_pc = "confirm"
    /\ dialog_log' = Append(dialog_log, [job |-> "import", answer |-> confirmed])
    /\ import_pc' = IF confirmed THEN "count" ELSE "returned"
    /\ existing_ids' = {}
    /\ UNCHANGED <<import_total_pages, import_page, synced, new_movies, new_shows, skipped_count, imported_count, error_count, import_log>>
    /\ UNCHANGED <<session_vars, scan_vars, bulk_vars, resolve_vars, input_vars, add_vars, log_vars, export_vars>>

\* The count request of the sync has returned: page 1 is requested, or
\* (no answer, or an empty library) the file is read at once.
ImportCountReturn(resp) ==
    /\ import_pc = "count"
    /\ IF resp.ok /\ resp.pages > 0
       THEN /\ import_pc' = "page"
            /\ import_total_pages' = resp.pages
            /\ import_page' = 1
            /\ UNCHANGED <<new_movies, new_shows, skipped_count, import_log>>
       ELSE /\ ReadAndImport(existing_ids)
            /\ UNCHANGED <<import_total_pages, import_page>>
    /\ UNCHANGED <<existing_ids, synced, imported_count, error_count>>
    /\ UNCHANGED <<session_vars, scan_vars, bulk_vars, resolve_vars, input_vars, add_vars, log_vars, dialog_vars, export_vars>>

\* The request of page import_page of the sync has returned: the ids of its
\* items are added (none when it failed); then the next page is requested,
\* or after the last page the file is read.
ImportPageReturn(resp) ==
    /\ import_pc = "page"
    /\ LET ids == IF resp.ok THEN existing_ids \cup IdsOf(resp.items) ELSE existing_ids
       IN /\ existing_ids' = ids
          /\ synced' = IF resp.ok THEN synced \cup resp.items ELSE synced
          /\ IF import_page < import_total_pages
             THEN /\ import_page' = import_page + 1
                  /\ UNCHANGED <<import_pc, new_movies, new_shows, skipped_count, import_log>>
             ELSE /\ ReadAndImport(ids)
                  /\ UNCHANGED import_page
    /\ UNCHANGED <<import_total_pages, imported_count, error_count>>
    /\ UNCHANGED <<session_vars, scan_vars, bulk_vars, resolve_vars, input_vars, add_vars, log_vars, dialog_vars, export_vars>>

\* The advanced view with a backup file in place (or none) and no job
\* running.
ImportInit ==
    /\ SessionInit
    /\ ScanIdle
    /\ BulkIdle
    /\ ResolveIdle
    /\ InputIdle
    /\ AddIdle
    /\ LogIdle
    /\ DialogIdle
    /\ ExportIdle
    /\ ImportIdle
    /\ export_file \in ImportFiles

ImportNext ==
    \/ ImportClick
    \/ \E confirmed \in BOOLEAN : ImportConfirm(confirmed)
    \/ \E resp \in SyncCountResps : ImportCountReturn(resp)
    \/ \E resp \in SyncPageResps : ImportPageReturn(resp)

ImportSpec ==
    ImportInit /\ [][ImportNext]_vars

(***************************************************************************)
(* The three confirmed jobs of the advanced view side by side.             *)
(***************************************************************************)
\* The advanced view after a scan with matches and, possibly, missing
\* items, with a backup file of one record in place or none; no job runs.
JobsInit ==
    /\ SessionInit
    /\ ResolveIdle
    /\ InputIdle
    /\ AddIdle
    /\ LogIdle
    /\ DialogIdle
    /\ ExportIdle
    /\ ImportIdle
    /\ export_file \in {NoFile, [exists |-> TRUE, lines |-> LinesOf(<<[type |-> "movie", id |-> 5]>>), closed |-> TRUE]}
    /\ missing_movies \in {<<>>, <<[ext |-> 1, tmdb |-> 1]>>, <<[ext |-> 1, tmdb |-> 0]>>}
    /\ missing_shows \in {<<>>, <<[ext |-> 1]>>}
    /\ \E n \in 1..2, u \in 0..1 :
           /\ matched_items = MatchedAfterScan(n, u)
           /\ counts = [root |-> n, season |-> u, episode |-> 0, missing |-> Len(missing_movies) + Len(missing_shows)]
           /\ list_root = [k \in 1..n |-> k + u]
    /\ scan_pc = "done"
    /\ all_mdb_movies = <<>>
    /\ all_mdb_shows = <<>>
    /\ movie_probe = <<>>
    /\ show_probe = <<>>
    /\ sem_value = 0
    /\ sem_waiters = <<>>
    /\ status = "scan_complete"
    /\ btn_disabled = FALSE
    /\ bulk_pc = "idle"
    /\ actionable_ids = <<>>
    /\ unsupported_items = 0
    /\ batch_i = 0
    /\ success_count = 0
    /\ fail_count = 0
    /\ bulk_log = <<>>
    /\ bulk_report = NoReport

\* The jobs, each with its confirmation; the library sync of Restore gets
\* no answer, so the file is read right after the confirmation.
JobsNext ==
    \/ RunAction
    \/ \E confirmed \in BOOLEAN : ConfirmAction(confirmed)
    \/ \E r \in {"200", "non200"} : BulkReturn(r)
    \/ AddClick
    \/ \E confirmed \in BOOLEAN : AddConfirm(confirmed)
    \/ AddPauseEnd
    \/ ImportClick
    \/ \E confirmed \in BOOLEAN : ImportConfirm(confirmed)
    \/ ImportCountReturn([ok |-> FALSE, pages |-> 0])

JobsSpec ==
    JobsInit /\ [][JobsNext]_vars

(***************************************************************************)
(* RivenAPI.resolve_tmdb_id.                                               *)
(***************************************************************************)
\* A call resolve_tmdb_id(item, token) about to be made, with the answers
\* the catalog would give to a lookup.
ResolveInit ==
    /\ SessionInit
    /\ ScanIdle
    /\ BulkIdle
    /\ InputIdle
    /\ AddIdle
    /\ MoreIdle
    /\ resolve_pc = "idle"
    /\ resolve_item \in Records
    /\ resolve_token \in BOOLEAN
    /\ find_resp \in FindResps
    /\ resolve_lookups = <<>>
    /\ resolve_result = Resolved("pending", 0)

\* resolve_tmdb_id up to its return or up to the request of find_tmdb_id
\* (without a configured token find_tmdb_id returns at once, without a
\* request).  item["parent_ids"].get raises when the key holds None, and
\* int(item.get("id")) raises when a movie has no id.
ResolveCall ==
    /\ resolve_pc = "idle"
    /\ LET choice == ExternalChoice(resolve_item)
           last == LastResort(resolve_item)
           external_id == IF choice.external_id # 0 THEN choice.external_id ELSE last.external_id
           source_type == IF choice.external_id # 0 THEN choice.source_type ELSE last.source_type
       IN IF resolve_item.tmdb_id # 0
          THEN /\ resolve_pc' = "returned"
               /\ resolve_result' = Resolved("id", resolve_item.tmdb_id)
               /\ UNCHANGED resolve_lookups
          ELSE IF resolve_item.parent = "null"
          THEN /\ resolve_pc' = "raised"
               /\ resolve_result' = Resolved("raised", 0)
               /\ UNCHANGED resolve_lookups
          ELSE IF resolve_item.parent = "dict" /\ resolve_item.p_tmdb_id # 0
          THEN /\ resolve_pc' = "returned"
               /\ resolve_result' = Resolved("id", resolve_item.p_tmdb_id)
               /\ UNCHANGED resolve_lookups
          ELSE IF choice.external_id = 0 /\ last.do = "return_id"
          THEN /\ resolve_pc' = IF resolve_item.id = 0 THEN "raised" ELSE "returned"
               /\ resolve_result' = IF resolve_item.id = 0 THEN Resolved("raised", 0) ELSE Resolved("id", resolve_item.id)
               /\ UNCHANGED resolve_lookups
          ELSE IF external_id # 0
          THEN /\ resolve_lookups' = Append(resolve_lookups, [source |-> source_type, external_id |-> external_id, sent |-> resolve_token])
               /\ resolve_pc' = IF resolve_token THEN "lookup" ELSE "returned"
               /\ resolve_result' = IF resolve_token THEN resolve_result ELSE find_tmdb_id(external_id, source_type, resolve_token, find_resp)
          ELSE /\ resolve_pc' = "returned"
               /\ resolve_result' = Resolved("none", 0)
               /\ UNCHANGED resolve_lookups
    /\ UNCHANGED <<resolve_item, resolve_token, find_resp>>
    /\ UNCHANGED <<session_vars, scan_vars, bulk_vars, input_vars, add_vars, more_vars>>

\* The request of find_tmdb_id has been answered: "if resolved_id: return
\* int(resolved_id)", else None.
FindReturn ==
    /\ resolve_pc = "lookup"
    /\ LET l == resolve_lookups[Len(resolve_lookups)]
       IN resolve_result' = find_tmdb_id(l.external_id, l.source, resolve_token, find_resp)
    /\ resolve_pc' = "returned"
    /\ UNCHANGED <<resolve_item, resolve_token, find_resp, resolve_lookups>>
    /\ UNCHANGED <<session_vars, scan_vars, bulk_vars, input_vars, add_vars, more_vars>>

ResolveNext ==
    \/ ResolveCall
    \/ FindReturn

ResolveSpec ==
    ResolveInit /\ [][ResolveNext]_vars

(***************************************************************************)
(* Properties of the manual-acquisition controller (SessionSpec).          *)
(***************************************************************************)
RunEnded ==
    pc \in {"done", "crashed"}

IsCall(i, ops) ==
    trace[i].ev = "call" /\ trace[i].op \in ops

IsRet(i, ops) ==
    trace[i].ev = "ret" /\ trace[i].op \in ops

LastEv ==
    trace[Len(trace)]

\* C1: a run in which start_session succeeded for a session id does not end
\* before complete_session or abort_session has been called for that id.
C1_SessionReleasedOnExit ==
    RunEnded =>
        \A i \in DOMAIN trace :
            (IsRet(i, {"start_session"}) /\ trace[i].res = "ok" /\ trace[i].sid \in SessionIds)
                => \E j \in DOMAIN trace : IsCall(j, {"complete_session", "abort_session"}) /\ trace[j].sid = trace[i].sid

\* C2: session linearity: select_files, update_attributes and
\* complete_session are issued only for a session id that an earlier
\* successful start_session of the run returned, and abort_session is
\* never issued for a session id after complete_session was issued for it.
C2_SessionLinearity ==
    /\ \A i \in DOMAIN trace :
           IsCall(i, FinalizeOps) =>
               /\ trace[i].sid \in SessionIds
               /\ \E j \in 1..(i - 1) : trace[j] = Ev("ret", "start_session", trace[i].sid, "ok")
    /\ \A i, j \in DOMAIN trace :
           (i < j /\ IsCall(i, {"complete_session"}) /\ IsCall(j, {"abort_session"})) => trace[i].sid # trace[j].sid

\* A run in which abort_session was tried and failed, and the session was
\* then completed.
C2_Witness ==
    /\ CallsOf("abort_session") # {}
    /\ \E i \in RetsOf("complete_session") : trace[i].res = "ok"

\* C3: within one session select_files, update_attributes and
\* complete_session are issued in that order, each at most once and each
\* only after the previous call has returned.
C3_FinalizeOrder ==
    /\ \A op \in FinalizeOps : Cardinality(CallsOf(op)) <= 1
    /\ \A i \in CallsOf("update_attributes") :
           \E j \in 1..(i - 1) : IsRet(j, {"select_files"}) /\ trace[j].sid = trace[i].sid
    /\ \A i \in CallsOf("complete_session") :
           \E j \in 1..(i - 1) : /\ IsRet(j, {"update_attributes"}) /\ trace[j].sid = trace[i].sid
                                 /\ \E k \in 1..(j - 1) : IsRet(k, {"select_files"}) /\ trace[k].sid = trace[i].sid
    /\ \A i, j \in DOMAIN trace :
           (i < j /\ IsCall(i, FinalizeOps) /\ IsCall(j, FinalizeOps))
               => \E k \in (i + 1)..(j - 1) : IsRet(k, {trace[i].op})

\* A show run whose three finalize calls have all returned.
C3_Witness ==
    /\ media_type = "tv"
    /\ RetsOf("select_files") # {}
    /\ RetsOf("update_attributes") # {}
    /\ RetsOf("complete_session") # {}

\* C4: when select_files, update_attributes or complete_session returns a
\* failure, no later finalize call is issued for the session and the run
\* does not report success.
C4_FinalizeFailureIsTerminal ==
    \A i \in DOMAIN trace :
        (IsRet(i, FinalizeOps) /\ trace[i].res = "fail") =>
            /\ \A j \in (i + 1)..Len(trace) : ~IsCall(j, FinalizeOps)
            /\ "success:scrape_initiated" \notin notified

\* C5: after a "not cached" failure of start_session the controller is back
\* at stream selection with no session state and no session-scoped call;
\* every start_session call directly follows a user selection (one call
\* per selection); after any other failure the run has ended and no
\* further call is issued.
C5_NotCachedRetry ==
    /\ (trace # <<>> /\ LastEv = Ev("ret", "start_session", "none", "not_cached")) =>
           /\ pc = "select_stream"
           /\ session_data = NoSession
           /\ \A i \in DOMAIN trace : ~IsCall(i, SessionOps)
    /\ \A i \in CallsOf("start_session") :
           i > 1 /\ trace[i - 1].ev = "user" /\ trace[i - 1].op = "select_stream"
    /\ Cardinality(CallsOf("start_session")) = Cardinality({i \in DOMAIN trace : trace[i].ev = "user" /\ trace[i].op = "select_stream" /\ trace[i].res # "none"})
    /\ \A i \in DOMAIN trace :
           (IsRet(i, {"start_session"}) /\ trace[i].res = "fail") => (i = Len(trace) /\ pc = "done" /\ session_data = NoSession)

\* A second start_session issued after the first one failed as not cached.
C5_Witness ==
    /\ Cardinality(CallsOf("start_session")) = 2
    /\ \E i \in RetsOf("start_session") : trace[i].res = "not_cached"

\* C6: start_session is only issued on a user selection of a stream with an
\* infohash out of a non-empty discovered set; with zero streams the run
\* ends as failed without any call, and a cancelled selection (or one
\* without infohash) ends the run with no call after it.
C6_NoStartWithoutSelection ==
    /\ \A i \in CallsOf("start_session") :
           i > 1 /\ trace[i - 1] = Ev("user", "select_stream", "none", trace[i].res) /\ trace[i].res # "none"
    /\ pc \in {"select_stream", "starting"} => DOMAIN all_streams # {}
    /\ "warning:no_streams" \in notified =>
           (pc = "done" /\ \A i \in DOMAIN trace : trace[i].ev = "user")
    /\ \A i \in DOMAIN trace :
           (trace[i].ev = "user" /\ (trace[i].op = "cancel_selection" \/ (trace[i].op = "select_stream" /\ trace[i].res = "none")))
               => (i = Len(trace) /\ pc = "done" /\ session_data = NoSession)

\* The selection screen cancelled before any session was started.
C6_Witness ==
    /\ pc = "done"
    /\ trace # <<>>
    /\ LastEv.op = "cancel_selection"
    /\ CallsOf("start_session") = {}

\* C7: Abort Session issues abort_session for the screen's session id; the
\* screen is dismissed by it only after abort_session returned success, and
\* then no finalize call follows; while the call is pending or after it
\* failed the mapping screen is still open and the run has not ended.
C7_AbortBeforeAborted ==
    /\ \A i \in DOMAIN trace :
           (trace[i].ev = "user" /\ trace[i].op = "abort_session") =>
               (i < Len(trace) /\ trace[i + 1] = Ev("call", "abort_session", session_data.session_id, "none") /\ session_data.session_id \in SessionIds)
    /\ \A i \in RetsOf("abort_session") :
           trace[i].res = "ok" => (i = Len(trace) /\ pc = "done" /\ "info:session_aborted" \in notified)
    /\ (trace # <<>> /\ IsCall(Len(trace), {"abort_session"})) => pc = "aborting"
    /\ (trace # <<>> /\ IsRet(Len(trace), {"abort_session"}) /\ LastEv.res = "fail") => pc = "mapping"
    /\ "info:session_aborted" \in notified => \A i \in DOMAIN trace : ~IsCall(i, FinalizeOps)

\* The mapping screen dismissed by a successful abort.
C7_Witness ==
    /\ pc = "done"
    /\ trace # <<>>
    /\ LastEv = Ev("ret", "abort_session", session_data.session_id, "ok")

(***************************************************************************)
(* Properties of the watchlist scan (ScanSpec, ScanCapSpec).               *)
(***************************************************************************)
\* C8: during a scan the number of library requests sent and not yet
\* answered never exceeds 10.
C8_ConcurrencyCap ==
    InFlight <= ConcurrencyCap

\* Ten requests in flight while a further probe waits for the semaphore.
C8_Witness ==
    /\ InFlight = ConcurrencyCap
    /\ sem_waiters # <<>>

RootIds ==
    {k \in DOMAIN matched_items : matched_items[k].type \in {"movie", "show"}}

\* C9: after a scan the reported count of matched library items and the
\* number of entries of the library list equal the number of distinct
\* internal ids in the match set.
C9_CountEqualsDistinctIds ==
    scan_pc = "done" =>
        /\ counts.root = Cardinality(RootIds)
        /\ Len(list_root) = Cardinality(RootIds)

\* C10: a probe whose query ends in a not-found, malformed or timed-out
\* response yields "not found"; it never ends in an exception and never
\* keeps the scan from classifying the other items and reaching its final
\* status.
C10_ProbeFailureNeverAborts ==
    /\ scan_pc # "crashed"
    /\ \A i \in DOMAIN movie_probe : movie_probe[i].res.kind \notin {"raised", "junk"}
    /\ \A i \in DOMAIN show_probe : show_probe[i].res.kind \notin {"raised", "junk"}

\* C11: a watchlist item whose library query failed with a transport error
\* (connection loss, timeout, error status) is not put in the missing
\* lists: after a scan these hold exactly the items whose query found
\* nothing and the items that carry no id to query with.
C11_TransportErrorNotMissing ==
    scan_pc = "done" =>
        /\ Len(missing_movies) = Cardinality({i \in DOMAIN movie_probe : movie_probe[i].res.kind \in {"absent", "noid"}})
        /\ Len(missing_shows) = Cardinality({i \in DOMAIN show_probe : show_probe[i].res.kind \in {"absent", "noid"}})

(***************************************************************************)
(* Properties of the bulk jobs (BulkSpec).                                 *)
(***************************************************************************)
IsBulkCall(e) ==
    e.ev = "call"

IsBulkRet(e) ==
    e.ev = "ret"

\* The bulk requests issued so far, in issue order.
BulkCalls ==
    SelectSeq(bulk_log, IsBulkCall)

BulkRets ==
    SelectSeq(bulk_log, IsBulkRet)

CeilDiv(n, d) ==
    (n + d - 1) \div d

\* The k-th chunk of 50 of a list.
ClaimedChunk(ids, k) ==
    [j \in 1..(IF k * 50 <= Len(ids) THEN 50 ELSE Len(ids) - (k - 1) * 50) |-> ids[(k - 1) * 50 + j]]

RECURSIVE ConcatBatches(_, _)
ConcatBatches(evs, n) ==
    IF n = 0 THEN <<>> ELSE ConcatBatches(evs, n - 1) \o evs[n].batch

\* Total size of the answered chunks with the given outcome.
RECURSIVE SizeOf(_, _, _)
SizeOf(evs, n, ok) ==
    IF n = 0 THEN 0
    ELSE SizeOf(evs, n - 1, ok) + (IF evs[n].ok = ok THEN Len(evs[n].batch) ELSE 0)

C13_ChunksSequential ==
    /\ Len(BulkCalls) - Len(BulkRets) \in {0, 1}
    /\ \A i \in DOMAIN bulk_log :
           (IsBulkCall(bulk_log[i]) /\ i > 1) =>
               /\ IsBulkRet(bulk_log[i - 1])
               /\ \E k \in 1..Len(BulkCalls) : bulk_log[i - 1].batch = ClaimedChunk(actionable_ids, k) /\ bulk_log[i].batch = ClaimedChunk(actionable_ids, k + 1)

\* The next chunk requested after the previous one was answered with a
\* failure.
C13_Witness ==
    \E i \in DOMAIN bulk_log : i > 1 /\ IsBulkCall(bulk_log[i]) /\ IsBulkRet(bulk_log[i - 1]) /\ ~bulk_log[i - 1].ok

\* C14: a job that entered its loop ends only after every chunk has been
\* submitted exactly once, whatever the earlier chunks returned, and then
\* succeeded + failed is the number of actionable ids, succeeded being the
\* total size of the chunks answered with success and failed that of the
\* others.
C14_PartialFailureTolerance ==
    bulk_pc \in {"complete", "crashed"} =>
        /\ Len(BulkCalls) = CeilDiv(Len(actionable_ids), 50)
        /\ \A j, k \in DOMAIN BulkCalls : j # k => BulkCalls[j].batch # BulkCalls[k].batch
        /\ success_count + fail_count = Len(actionable_ids)
        /\ success_count = SizeOf(BulkRets, Len(BulkRets), TRUE)
        /\ fail_count = SizeOf(BulkRets, Len(BulkRets), FALSE)

\* C15: the final report of a job in which some chunk failed differs from
\* the final report of every job in which all chunks succeeded.
C15_ReportTellsFailures ==
    (bulk_pc = "complete" /\ fail_count > 0) =>
        \A n \in 1..MaxIds : bulk_report # CompleteReport(n, unsupported_items)

(***************************************************************************)
(* Properties of the identity resolution (ResolveSpec).                    *)
(***************************************************************************)
\* The registry ids a record carries, its own before its parent's.
TvdbOf(item) ==
    IF item.tvdb_id # 0 THEN item.tvdb_id ELSE IF item.parent = "dict" THEN item.p_tvdb_id ELSE 0

ImdbOf(item) ==
    IF item.imdb_id # 0 THEN item.imdb_id ELSE IF item.parent = "dict" THEN item.p_imdb_id ELSE 0

ParentTmdbOf(item) ==
    IF item.parent = "dict" THEN item.p_tmdb_id ELSE 0

\* The id a lookup of an external id would give (0: none).
LookupWouldGive(external_id, source) ==
    IF external_id # 0 /\ resolve_token /\ find_resp[source] = "found" THEN FoundId(external_id) ELSE 0

\* First success of the chain direct id, parent id, tvdb lookup, imdb
\* lookup, kind-specific fallback (0: unresolved).
FirstSuccess(item) ==
    IF item.tmdb_id # 0 THEN item.tmdb_id
    ELSE IF ParentTmdbOf(item) # 0 THEN ParentTmdbOf(item)
    ELSE IF LookupWouldGive(TvdbOf(item), "tvdb_id") # 0 THEN LookupWouldGive(TvdbOf(item), "tvdb_id")
    ELSE IF LookupWouldGive(ImdbOf(item), "imdb_id") # 0 THEN LookupWouldGive(ImdbOf(item), "imdb_id")
    ELSE IF item.type = "show" THEN LookupWouldGive(item.id, "tvdb_id")
    ELSE IF item.type \in {"movie", "absent"} THEN item.id
    ELSE 0

\* C16: a call that returns gives the first success of the chain direct
\* catalog id, parent catalog id, tvdb lookup, imdb lookup, kind-specific
\* fallback, and makes no lookup when the direct or the parent catalog id
\* is present.
C16_ResolutionOrder ==
    resolve_pc = "returned" =>
        /\ resolve_result = (IF FirstSuccess(resolve_item) # 0 THEN Resolved("id", FirstSuccess(resolve_item)) ELSE Resolved("none", 0))
        /\ (resolve_item.tmdb_id # 0 \/ ParentTmdbOf(resolve_item) # 0) => resolve_lookups = <<>>

\* C17: for a record without catalog id that carries a tvdb id and an imdb
\* id, a call (with a configured token) that returns after a tvdb lookup
\* without result has also made the imdb lookup, and returns its result
\* when it has one.
C17_FallThroughToImdb ==
    (/\ resolve_pc = "returned"
     /\ resolve_token
     /\ resolve_item.tmdb_id = 0
     /\ ParentTmdbOf(resolve_item) = 0
     /\ TvdbOf(resolve_item) # 0
     /\ ImdbOf(resolve_item) # 0
     /\ LookupWouldGive(TvdbOf(resolve_item), "tvdb_id") = 0) =>
        /\ \E i \in DOMAIN resolve_lookups : resolve_lookups[i].source = "imdb_id" /\ resolve_lookups[i].external_id = ImdbOf(resolve_item)
        /\ LookupWouldGive(ImdbOf(resolve_item), "imdb_id") # 0 => resolve_result = Resolved("id", LookupWouldGive(ImdbOf(resolve_item), "imdb_id"))

\* A record with an internal id and no catalog id and no registry id, its
\* own or its parent's.
OnlyInternalId(item) ==
    /\ item.id # 0
    /\ item.tmdb_id = 0
    /\ item.parent # "null"
    /\ ParentTmdbOf(item) = 0
    /\ TvdbOf(item) = 0
    /\ ImdbOf(item) = 0

C19_ResolveNeverRaises ==
    resolve_pc # "raised"

\* C20: the mapping screen is dismissed by Confirm only with a mapping of
\* at least one file, which is then sent to select_files; Confirm with all
\* rows blank leaves the screen open, returns no mapping and issues no
\* call.
C20_EmptyMappingRejected ==
    /\ \A i \in DOMAIN trace :
           (trace[i].ev = "user" /\ trace[i].op = "confirm_mapping") =>
               /\ DOMAIN file_mapping # {}
               /\ payload_for_select # {}
               /\ i < Len(trace)
               /\ IsCall(i + 1, {"select_files"})
    /\ (media_type = "tv" /\ CallsOf("select_files") # {}) => DOMAIN file_mapping # {}
    /\ ("warning:no_files_mapped" \in notified /\ DOMAIN file_mapping = {}) =>
           (CallsOf("select_files") = {} /\ \A i \in DOMAIN trace : ~(trace[i].ev = "user" /\ trace[i].op = "confirm_mapping"))

\* Confirm was pressed with all rows blank: the warning is shown and the
\* mapping screen is still open, nothing selected.
C20_Witness ==
    /\ pc = "mapping"
    /\ "warning:no_files_mapped" \in notified
    /\ DOMAIN file_mapping = {}
    /\ CallsOf("select_files") = {}

\* A row of the mapping screen that is not blank and whose season or
\* episode is not an integer numeral.
RowInvalid(r) ==
    ~(r.season = "" /\ r.episode = "") /\ ~(r.season \in {"1", "2"} /\ r.episode \in {"1", "2"})

\* C21: whenever a non-blank row of the mapping screen holds a season or an
\* episode that is not an integer (a row with only one of the two fields
\* filled included), the screen has not been dismissed by Confirm, no
\* mapping has been returned and no select_files request has been issued,
\* whatever the other rows hold.
C21_InvalidRowBlocksConfirm ==
    (\E i \in DOMAIN row_inputs : RowInvalid(row_inputs[i]))
        => /\ \A j \in DOMAIN trace : ~(trace[j].ev = "user" /\ trace[j].op = "confirm_mapping")
           /\ file_mapping = EmptyDict
           /\ \A j \in DOMAIN trace : ~IsCall(j, {"select_files"})

\* Confirm was pressed with an invalid row next to a valid one: the error
\* is shown and the screen is still open.
C21_Witness ==
    /\ pc = "mapping"
    /\ "error:invalid_season_episode" \in notified
    /\ \E i, j \in DOMAIN row_inputs :
           /\ row_inputs[i] = [season |-> "1", episode |-> ""]
           /\ row_inputs[j] = [season |-> "1", episode |-> "2"]
    /\ file_mapping = EmptyDict

\* The candidate files of the session the run holds.
CandidateFiles ==
    {session_data.files[i] : i \in DOMAIN session_data.files}

\* C22: in a movie run, the select_files request carries exactly one file,
\* a candidate of the session whose size is at least that of every other
\* candidate, and no user input lies between the successful start_session
\* and the select_files request.
C22_MovieLargestFile ==
    media_type = "movie" =>
        \A j \in CallsOf("select_files") :
            /\ Cardinality(payload_for_select) = 1
            /\ \E f \in CandidateFiles :
                   /\ payload_for_select = {f.file_id}
                   /\ \A g \in CandidateFiles : g.filesize <= f.filesize
            /\ \E i \in 1..(j - 1) :
                   /\ IsRet(i, {"start_session"}) /\ trace[i].res = "ok"
                   /\ \A k \in (i + 1)..(j - 1) : trace[k].ev # "user"

\* A movie session with a smaller file listed before a larger one has been
\* submitted.
C22_Witness ==
    /\ media_type = "movie"
    /\ CallsOf("select_files") # {}
    /\ Len(session_data.files) = 2
    /\ session_data.files[1].filesize < session_data.files[2].filesize
    /\ payload_for_select = {session_data.files[2].file_id}

\* C23: every file sent with select_files or update_attributes is a
\* candidate file returned by the successful start_session of the session
\* the request names; without such a session no file is sent.
C23_PayloadFromSessionCandidates ==
    /\ \A j \in CallsOf("select_files") \cup CallsOf("update_attributes") :
           /\ session_data.set
           /\ trace[j].sid = session_data.session_id
           /\ \E i \in 1..(j - 1) : IsRet(i, {"start_session"}) /\ trace[i].res = "ok" /\ trace[i].sid = trace[j].sid
           /\ payload_for_select # {}
    /\ payload_for_select \subseteq {f.file_id : f \in CandidateFiles}
    /\ \A k \in DOMAIN file_mapping : file_mapping[k] \in CandidateFiles
    /\ (\A i \in DOMAIN trace : ~(IsRet(i, {"start_session"}) /\ trace[i].res = "ok")) => (payload_for_select = {} /\ file_mapping = EmptyDict)

\* A show run whose first start attempt was answered "not cached" has sent
\* two mapped files of the session started by the second attempt.
C23_Witness ==
    /\ media_type = "tv"
    /\ CallsOf("update_attributes") # {}
    /\ Cardinality(payload_for_select) = 2
    /\ \E i \in DOMAIN trace : IsRet(i, {"start_session"}) /\ trace[i].res = "not_cached"

\* C24: the item is re-fetched (_refresh_current_item_data_and_ui) exactly
\* when complete_session has returned success; a run that failed, was
\* cancelled or aborted does not re-fetch.
C24_RefreshIffCompleted ==
    refreshed <=> \E i \in DOMAIN trace : IsRet(i, {"complete_session"}) /\ trace[i].res = "ok"

\* A show run has completed after a failed update_attributes and has
\* re-fetched the item.
C24_Witness ==
    /\ refreshed
    /\ pc = "done"
    /\ media_type = "tv"
    /\ \E i \in DOMAIN trace : IsRet(i, {"update_attributes"}) /\ trace[i].res = "fail"

\* The finalization has begun: select_files has been issued.
Finalizing ==
    CallsOf("select_files") # {}

\* The run has ended as Completed or Failed.
CompletedOrFailed ==
    /\ pc = "done"
    /\ Len(trace) > 0
    /\ \/ IsRet(Len(trace), {"complete_session"})
       \/ IsRet(Len(trace), {"select_files"}) /\ LastEv.res = "fail"

\* C25: once select_files has been issued, no user input is accepted and no
\* abort_session is issued any more, and, every remote call returning, the
\* run ends as Completed or Failed.
C25_FinalizationRunsToEnd ==
    /\ [](\A j \in CallsOf("select_files") : \A k \in (j + 1)..Len(trace) : trace[k].ev # "user" /\ ~IsCall(k, {"abort_session"}))
    /\ (Finalizing ~> CompletedOrFailed)

\* A show run ended with a failed complete_session after the mapping was
\* confirmed.
C25_Witness ==
    /\ CompletedOrFailed
    /\ media_type = "tv"
    /\ IsRet(Len(trace), {"complete_session"}) /\ LastEv.res = "fail"
    /\ \E i \in DOMAIN trace : trace[i].ev = "user" /\ trace[i].op = "confirm_mapping"

(***************************************************************************)
(* Properties of the mass add (MassAddSpec).                               *)
(***************************************************************************)
\* C26: every add request carries at most 5 ids, a request is answered
\* before anything else happens, and every chunk (the last one and a chunk
\* without any id included) is followed by its pause: a chunk is followed
\* by its request or directly by the pause, and an answer by the pause, so
\* that a pause lies between any two requests.
C26_MassAddThrottling ==
    \A k \in DOMAIN add_log :
        /\ add_log[k].ev = "request" => Len(add_log[k].ids) <= 5
        /\ (add_log[k].ev = "request" /\ k < Len(add_log)) => add_log[k + 1].ev = "answer"
        /\ (add_log[k].ev = "chunk" /\ k < Len(add_log)) => add_log[k + 1].ev \in {"request", "pause"}
        /\ (add_log[k].ev = "answer" /\ k < Len(add_log)) => add_log[k + 1].ev = "pause"
        /\ (add_log[k].ev = "pause" /\ k < Len(add_log)) => add_log[k + 1].ev = "pause_end"

(***************************************************************************)
(* Further properties of the scan (ScanSpec) and of the bulk job next to a *)
(* scan (BulkSpec).                                                        *)
(***************************************************************************)
\* C27: after a scan, the matched library items are displayed in the order
\* of their titles.
C27_DisplaySortedByTitle ==
    scan_pc = "done" =>
        \A i, j \in DOMAIN list_root : i < j => TitleOf(list_root[i]) <= TitleOf(list_root[j])

\* What a scan in progress can still do: an answer arrives or a gather
\* returns.
ScanProgress ==
    \/ \E resp \in MdbResponses : ScanFetchReturn(resp)
    \/ \E i \in 1..MaxMovies, r \in MovieRaw : ProbeMovieReturn(i, r)
    \/ MoviesGathered
    \/ \E i \in 1..MaxShows, r \in ShowRaw : ProbeShowReturn(i, r)
    \/ ShowsGathered

\* C28: a settled probe is not queried again, the results are classified
\* only when every probe has settled, and a scan that has begun probing
\* either has reached its "Scan Complete" status or can still proceed (an
\* answer is outstanding or a gather is about to return).
C28_ScanRunsToCompletion ==
    /\ \A i \in DOMAIN movie_probe : movie_probe[i].st = "done" => ~ENABLED (\E r \in MovieRaw : ProbeMovieReturn(i, r))
    /\ \A i \in DOMAIN show_probe : show_probe[i].st = "done" => ~ENABLED (\E r \in ShowRaw : ProbeShowReturn(i, r))
    /\ scan_pc = "done" => AllDone(movie_probe) /\ AllDone(show_probe)
    /\ Len(all_mdb_movies) + Len(all_mdb_shows) > 0 => (status = "scan_complete" \/ ENABLED ScanProgress)

\* Positions of _run_manual_scrape.
PcValues == {"idle", "discovering", "select_stream", "starting", "movie_parse", "tv_parse", "mapping", "aborting", "select", "update", "complete", "done", "crashed"}

\* C29: wherever a call of the acquisition run is outstanding, its failing
\* by timeout and its failing by a refused connection lead the run to the
\* same position, with the same notification shown or not.
C29_TimeoutLikeTransportFailure ==
    \A q \in PcValues, b \in BOOLEAN :
        /\ ENABLED (StartReturn([kind |-> "timeout", body |-> NoSession]) /\ pc' = q /\ (notified' = notified) = b)
               <=> ENABLED (StartReturn([kind |-> "connect_error", body |-> NoSession]) /\ pc' = q /\ (notified' = notified) = b)
        /\ ENABLED (MovieParseReturn("timeout") /\ pc' = q /\ (notified' = notified) = b)
               <=> ENABLED (MovieParseReturn("connect_error") /\ pc' = q /\ (notified' = notified) = b)
        /\ ENABLED (TvParseReturn("timeout") /\ pc' = q /\ (notified' = notified) = b)
               <=> ENABLED (TvParseReturn("connect_error") /\ pc' = q /\ (notified' = notified) = b)
        /\ ENABLED (SelectReturn("timeout") /\ pc' = q /\ (notified' = notified) = b)
               <=> ENABLED (SelectReturn("connect_error") /\ pc' = q /\ (notified' = notified) = b)
        /\ ENABLED (UpdateReturn("timeout") /\ pc' = q /\ (notified' = notified) = b)
               <=> ENABLED (UpdateReturn("connect_error") /\ pc' = q /\ (notified' = notified) = b)
        /\ ENABLED (CompleteReturn("timeout") /\ pc' = q /\ (notified' = notified) = b)
               <=> ENABLED (CompleteReturn("connect_error") /\ pc' = q /\ (notified' = notified) = b)
        /\ ENABLED (AbortReturn("timeout") /\ pc' = q /\ (notified' = notified) = b)
               <=> ENABLED (AbortReturn("connect_error") /\ pc' = q /\ (notified' = notified) = b)

\* C30: while a new scan has been started and has produced no match of its
\* own (its watchlist request is outstanding, or it stopped because the
\* request failed or the list was empty), no bulk job is being offered for
\* confirmation over ids, which could only be matches of the earlier scan.
C30_MatchSetFreshPerScan ==
    ~(scan_pc \in {"fetching", "stopped"} /\ bulk_pc = "confirm" /\ Len(actionable_ids) > 0)

\* The notifications that report the failure of a call of the run.
FailureTags(op) ==
    IF op = "start_session" THEN {"error:start_session", "warning:not_cached", "error:no_cached_files"}
    ELSE IF op = "parse" THEN {"error:parse_titles"}
    ELSE IF op = "select_files" THEN {"error:select_files"}
    ELSE IF op = "update_attributes" THEN {"error:update_attributes", "error:finalization"}
    ELSE {"error:finalization"}

\* C33: a run that has ended shows an error or a warning for every call of
\* it that failed (start_session, the title parsing of a show run,
\* select_files, update_attributes, complete_session), and a run that ended
\* after discovery without a stream or on a session without files shows its
\* warning or error.
C33_EveryFailureNotified ==
    RunEnded =>
        \A i \in DOMAIN trace :
            (/\ IsRet(i, {"start_session", "parse", "select_files", "update_attributes", "complete_session"})
             /\ trace[i].res = "fail"
             /\ (trace[i].op = "parse" => media_type = "tv"))
                => FailureTags(trace[i].op) \cap notified # {}

\* The indices of the probes that returned a library item.
MatchedProbes(probes) ==
    {i \in DOMAIN probes : probes[i].res.kind = "item"}

\* The watchlist entries whose probe returned no item, in watchlist order.
MissingOf(entries, probes) ==
    LET F[i \in 0..Len(entries)] ==
            IF i = 0 THEN <<>>
            ELSE IF i \in MatchedProbes(probes) THEN F[i - 1]
            ELSE Append(F[i - 1], entries[i])
    IN F[Len(entries)]

\* C34: after a scan every watchlist entry is either matched (its probe
\* returned a library item, which is in the match set) or listed as
\* missing, never both and never neither: the missing lists are exactly
\* the unmatched entries, matched + missing entries = movies + shows, and
\* the ids of the match set are exactly the internal ids the probes
\* returned.
C34_ScanPartition ==
    scan_pc = "done" =>
        /\ missing_movies = MissingOf(all_mdb_movies, movie_probe)
        /\ missing_shows = MissingOf(all_mdb_shows, show_probe)
        /\ counts.missing = Len(missing_movies) + Len(missing_shows)
        /\ Cardinality(MatchedProbes(movie_probe)) + Cardinality(MatchedProbes(show_probe)) + counts.missing
               = Len(all_mdb_movies) + Len(all_mdb_shows)
        /\ DOMAIN matched_items = {movie_probe[i].res.item.id : i \in MatchedProbes(movie_probe)}
                                      \cup {show_probe[i].res.item.id : i \in MatchedProbes(show_probe)}

C34_Witness ==
    /\ scan_pc = "done"
    /\ Len(all_mdb_movies) = 2
    /\ Len(all_mdb_shows) = 2
    /\ Cardinality(MatchedProbes(movie_probe)) = 1
    /\ Cardinality(MatchedProbes(show_probe)) = 1
    /\ Len(missing_movies) = 1
    /\ Len(missing_shows) = 1
    /\ Cardinality(DOMAIN matched_items) = 2

\* The ids of the bulk requests issued so far.
RequestedIds ==
    UNION {{bulk_log[i].batch[j] : j \in DOMAIN bulk_log[i].batch} : i \in {k \in DOMAIN bulk_log : IsBulkCall(bulk_log[k])}}

\* C36: the id list of a bulk job is built only from matched items of type
\* movie or show (a season, an episode or another type is counted as
\* unsupported and left out), every id of every bulk request is taken from
\* that list, and a job that found no movie or show issues no request.
C36_OnlyRootsInBulkRequests ==
    [][/\ (actionable_ids' # actionable_ids =>
              \A j \in DOMAIN actionable_ids' :
                  /\ actionable_ids'[j] \in DOMAIN matched_items
                  /\ matched_items[actionable_ids'[j]].type \in {"movie", "show"})
       /\ RequestedIds' \subseteq {actionable_ids'[j] : j \in DOMAIN actionable_ids'}
       /\ (actionable_ids' = <<>> => bulk_log' = <<>>)]_vars

C36_Witness ==
    /\ bulk_pc = "complete"
    /\ unsupported_items = 1
    /\ Len(actionable_ids) = 2
    /\ RequestedIds = {2, 3}

\* C37: a bulk job is not disturbed by a scan that runs meanwhile: the
\* title lookup of a failed chunk does not fail on an id the scan removed
\* from the match set, and the cleanup at the end of the job does not
\* discard the matches of a completed scan that are no ids of the job.
C37_BulkJobIsolatedFromScan ==
    [][/\ bulk_pc' # "crashed"
       /\ (bulk_pc = "chunk" /\ bulk_pc' = "complete" /\ scan_pc = "done") =>
              \A k \in DOMAIN matched_items :
                  k \notin {actionable_ids[j] : j \in DOMAIN actionable_ids} => k \in DOMAIN matched_items']_vars

\* The rows of the mapping screen that hold a valid season and episode.
ValidRows ==
    {i \in DOMAIN row_inputs : RowValid(row_inputs[i])}

\* C40: when Confirm dismisses the mapping screen, the returned mapping and
\* the select_files payload built from it hold as many files as there are
\* rows with a valid season and episode, also when two rows carry the same
\* season and episode.
C40_EveryValidRowMapped ==
    [][(pc = "mapping" /\ pc' = "select") =>
           /\ Cardinality(DOMAIN file_mapping') = Cardinality(ValidRows)
           /\ Cardinality(payload_for_select') = Cardinality(ValidRows)]_vars

\* C32: while the log screen reads the event stream no stream already
\* delivered is lost, and once an error: line has been received no stream
\* is added any more (discovery has stopped reading); after the screen was
\* dismissed ([DONE], end of the stream, Close) nothing is added.
C32_DiscoveryStopsAtTerminator ==
    [][/\ (pc = "discovering" /\ pc' = "discovering") => DOMAIN all_streams \subseteq DOMAIN all_streams'
       /\ (pc = "discovering" /\ error_logged) => all_streams' = all_streams
       /\ pc # "discovering" => DOMAIN all_streams' \subseteq DOMAIN all_streams]_vars

\* The records on_export has written to the file.
WrittenRecords ==
    [i \in DOMAIN export_file.lines |-> RecordOf(export_file.lines[i])]

\* C31: when Backup reports "Export complete!", the file is a list that
\* json.load (the reader of Restore) parses, and the list read is exactly
\* the list of the export_count records written, whichever items lacked
\* their id and whichever page requests failed.
C31_ExportReadsBack ==
    export_pc = "complete" =>
        /\ JsonLoad(export_file).ok
        /\ JsonLoad(export_file).records = WrittenRecords
        /\ Len(WrittenRecords) = export_count

\* Restore has read the file and classified its records, and has ended.
ImportEnded ==
    import_pc \in {"complete", "crashed"}

\* The ids of the add requests issued so far for a media type, in order.
RECURSIVE SubmittedIds(_, _)
SubmittedIds(m_type, n) ==
    IF n = 0 THEN <<>>
    ELSE IF import_log[n].ev = "request" /\ import_log[n].m_type = m_type
    THEN SubmittedIds(m_type, n - 1) \o import_log[n].ids
    ELSE SubmittedIds(m_type, n - 1)

\* C38: when Restore has ended after reading the file, imported + errors +
\* skipped is the number of records of the file, the movie ids not skipped
\* have been submitted exactly once each as tmdb ids ("movie" requests) and
\* the show ids as tvdb ids ("tv" requests), in requests of at most 50 ids.
C38_RestoreAccounting ==
    ImportEnded =>
        /\ imported_count + error_count + skipped_count = Len(JsonLoad(export_file).records)
        /\ SubmittedIds("movie", Len(import_log)) = new_movies
        /\ SubmittedIds("tv", Len(import_log)) = new_shows
        /\ \A i \in DOMAIN import_log : Len(import_log[i].ids) <= 50

\* C39: a record that Restore skipped (its id was among the existing ids)
\* has an item of its own kind in the synced library that carries the id in
\* the record's namespace: tmdb for a movie, tvdb for a show.
C39_SkipOnlySameKind ==
    ImportEnded =>
        \A i \in DOMAIN JsonLoad(export_file).records :
            LET rec == JsonLoad(export_file).records[i]
            IN rec.id \in existing_ids =>
                   \E it \in synced :
                       /\ it.type = rec.type
                       /\ (IF rec.type = "movie" THEN it.tmdb ELSE it.tvdb) = rec.id

\* The ConfirmationScreen of a job has returned this answer.
Answered(job, answer) ==
    \E i \in DOMAIN dialog_log : dialog_log[i] = [job |-> job, answer |-> answer]

\* Restore has gone past its confirmation.
ImportPastDialog ==
    import_pc \in {"count", "page", "read_error", "complete", "crashed"} \/ import_log # <<>>

\* C35: a bulk request of run_action, a chunk of perform_mass_add and the
\* sync, the read and a chunk of perform_import happen only after the
\* job's own ConfirmationScreen has returned true, and never when it
\* returned false.
C35_NoMutationWithoutConfirmation ==
    /\ bulk_log # <<>> => (Answered("bulk", TRUE) /\ ~Answered("bulk", FALSE))
    /\ add_log # <<>> => (Answered("add", TRUE) /\ ~Answered("add", FALSE))
    /\ ImportPastDialog => (Answered("import", TRUE) /\ ~Answered("import", FALSE))

C35_Witness ==
    /\ Answered("bulk", TRUE)
    /\ bulk_log # <<>>
    /\ Answered("add", FALSE)
    /\ add_log = <<>>
    /\ add_pc = "returned"
    /\ Answered("import", TRUE)
    /\ import_log # <<>>

====
